---- MODULE Spec2Model ----
(***************************************************************************)
(* A model of the 2D mesh generator: the Bowyer-Watson Delaunay           *)
(* triangulator (src/src/delaunay.rs, src/src/elements.rs), the mesh      *)
(* container (src/src/mesh.rs) and the pipelines built on them.           *)
(*                                                                         *)
(* Coordinates.  The program computes in f64.  The model computes the     *)
(* same expressions in exact arithmetic on points with integer            *)
(* coordinates: a point is a pair <<x, y>>.  Divisions are never carried  *)
(* out: a comparison between quotients is cross-multiplied, with the      *)
(* sign of the divisor taken into account.                                 *)
(*                                                                         *)
(* Indices.  Vertex indices are 0-based as in the program; Pt(P, i) is    *)
(* points[i] of the program.  Positions in the triangle list are 1-based. *)
(***************************************************************************)
EXTENDS Integers, Sequences, FiniteSets, TLC

VARIABLES
    pc,                     \* position of the modelled call
    input,                  \* the points handed to DelaunayTriangulator::new
    points,                 \* DelaunayTriangulator.points
    triangles,              \* DelaunayTriangulator.triangles (vertex triples)
    super_triangle_indices, \* DelaunayTriangulator.super_triangle_indices
    next_point,             \* loop variable i of triangulate()
    mesh,                   \* the Mesh built by the call, or NoMesh
    result,                 \* what the call returned, "none" while it runs
    request,                \* the MeshRequest's options, NoRequest outside generate_mesh
    boundary_count,         \* the number of boundary points at the head of points
    iteration,              \* the loop counter of the refinement or annealing loop
    optimizer,              \* the annealing generator or optimizer at work, or NoOptimizer
    vertices_before         \* mesh.vertices when optimize_mesh was called

vars == <<pc, input, points, triangles, super_triangle_indices, next_point, mesh,
          result, request, boundary_count, iteration, optimizer, vertices_before>>

\* The variables only the annealing code uses.
annealVars == <<optimizer, vertices_before>>

\* The variables only the generate_mesh pipelines and the optimizer use.
pipeVars == <<request, boundary_count, iteration, annealVars>>

---------------------------------------------------------------------------
(* Bounds of the model *)

\* Input coordinates are drawn from {0, 2, ..., 2 * GridMax}: even, so that
\* the midpoint of the bounding box ((min + max) / 2.0 in
\* create_super_triangle) is an integer.
GridMax == 2
\* The longest input point list.
MaxPoints == 4

Coords == {2 * k : k \in 0..GridMax}
Grid == Coords \X Coords

---------------------------------------------------------------------------
(* Small helpers *)

Abs(x) == IF x < 0 THEN -x ELSE x

Max2(a, b) == IF a > b THEN a ELSE b

RECURSIVE SeqMin(_), SeqMax(_)
SeqMin(s) == IF Len(s) = 1 THEN s[1]
             ELSE LET m == SeqMin(Tail(s)) IN IF s[1] < m THEN s[1] ELSE m
SeqMax(s) == IF Len(s) = 1 THEN s[1]
             ELSE LET m == SeqMax(Tail(s)) IN IF s[1] > m THEN s[1] ELSE m

RECURSIVE Flatten(_)
Flatten(ss) == IF ss = <<>> THEN <<>> ELSE Head(ss) \o Flatten(Tail(ss))

\* The sequences of length n over S.
SeqsOfLen(S, n) == [1..n -> S]

Pt(P, i) == P[i + 1]
X(p) == p[1]
Y(p) == p[2]

---------------------------------------------------------------------------
(* elements.rs: Triangle and Edge *)

\* Triangle::jacobian
Jacobian(v, P) ==
    LET p1 == Pt(P, v[1])
        p2 == Pt(P, v[2])
        p3 == Pt(P, v[3])
        dx21 == X(p2) - X(p1)
        dx31 == X(p3) - X(p1)
        dy21 == Y(p2) - Y(p1)
        dy31 == Y(p3) - Y(p1)
    IN  dx21 * dy31 - dx31 * dy21

\* Triangle::calculate_circumcircle: the determinant d
CircumD(v, P) ==
    LET a == Pt(P, v[1])
        b == Pt(P, v[2])
        c == Pt(P, v[3])
    IN  2 * (X(a) * (Y(b) - Y(c)) + X(b) * (Y(c) - Y(a)) + X(c) * (Y(a) - Y(b)))

Sq(p) == X(p) * X(p) + Y(p) * Y(p)

\* Triangle::calculate_circumcircle: the numerators of ux and uy (ux = CircumUx / d)
CircumUx(v, P) ==
    LET a == Pt(P, v[1])
        b == Pt(P, v[2])
        c == Pt(P, v[3])
    IN  Sq(a) * (Y(b) - Y(c)) + Sq(b) * (Y(c) - Y(a)) + Sq(c) * (Y(a) - Y(b))

CircumUy(v, P) ==
    LET a == Pt(P, v[1])
        b == Pt(P, v[2])
        c == Pt(P, v[3])
    IN  Sq(a) * (X(c) - X(b)) + Sq(b) * (X(a) - X(c)) + Sq(c) * (X(b) - X(a))

\* d.abs() < 1e-10 in calculate_circumcircle.  d is an integer here, so it is
\* below 1e-10 in absolute value exactly when it is 0.
IsDegenerate(v, P) == CircumD(v, P) = 0

(* Wide integers.  The product below has up to 50 bits, more than the
   model checker's integers hold, so it is computed in two limbs: the pair
   <<hi, lo>> stands for hi * 2^20 + lo with 0 <= lo < 2^20.  WideMul needs
   |x| < 2^30 and |x * y| < 2^50. *)
WideNorm(hi, lo) == <<hi + (lo \div 1048576), lo % 1048576>>

WideMul(x, y) ==
    LET x1 == x \div 1024
        x0 == x % 1024
        y1 == y \div 1024
        y0 == y % 1024
        mid == x1 * y0 + x0 * y1
    IN  WideNorm(x1 * y1 + (mid \div 1024), (mid % 1024) * 1024 + x0 * y0)

WideAdd(a, b) == WideNorm(a[1] + b[1], a[2] + b[2])

WideSub(a, b) == WideNorm(a[1] - b[1], a[2] - b[2])

WideSign(a) == IF a[1] < 0 THEN -1 ELSE IF a[1] > 0 \/ a[2] > 0 THEN 1 ELSE 0

(* dist_squared - circumradius_squared, times d, as a wide integer.  With
   u = (Ux/d, Uy/d) the circumcenter and a the first vertex
   (circumradius_squared is distance_squared(u, a)):
     |u - p|^2 - |u - a|^2 = (|p|^2 - |a|^2) - 2 u.(p - a)
                           = ((|p|^2 - |a|^2) d - 2 (Ux (px - ax) + Uy (py - ay))) / d *)
CircumN(v, P, p) ==
    LET a == Pt(P, v[1])
    IN  WideSub(WideMul(Sq(p) - Sq(a), CircumD(v, P)),
                WideAdd(WideMul(CircumUx(v, P), 2 * (X(p) - X(a))),
                        WideMul(CircumUy(v, P), 2 * (Y(p) - Y(a)))))

(* Triangle::contains_point_in_circumcircle:
     dist_squared < self.circumradius_squared - 1e-10.
   For a degenerate triangle circumradius_squared is f64::INFINITY, and
   INFINITY - 1e-10 is INFINITY, above every finite dist_squared.
   Otherwise the test is N/d < -1e-10 with N = CircumN and d = CircumD, both
   integers with |d| < 2^31: N/d is 0 or at least 1/|d| > 1e-10 in absolute
   value, so the test is N/d < 0. *)
ContainsPointInCircumcircle(v, P, p) ==
    IF IsDegenerate(v, P) THEN TRUE
    ELSE LET n == WideSign(CircumN(v, P, p))
             d == CircumD(v, P)
         IN  (n < 0 /\ d > 0) \/ (n > 0 /\ d < 0)

\* Edge::new: the lower index first
EdgeNew(v1, v2) == IF v1 < v2 THEN <<v1, v2>> ELSE <<v2, v1>>

\* The three edges of a triangle, Edge::new(vertices[i], vertices[(i + 1) % 3])
TriangleEdges(t) == <<EdgeNew(t[1], t[2]), EdgeNew(t[2], t[3]), EdgeNew(t[3], t[1])>>

---------------------------------------------------------------------------
(* delaunay.rs: DelaunayTriangulator *)

\* calculate_bounds, as <<min_x, max_x, min_y, max_y>>
CalculateBounds(ps) ==
    LET xs == [k \in 1..Len(ps) |-> X(ps[k])]
        ys == [k \in 1..Len(ps) |-> Y(ps[k])]
    IN  <<SeqMin(xs), SeqMax(xs), SeqMin(ys), SeqMax(ys)>>

\* The factor 20.0 of create_super_triangle
SuperFactor == 20

\* create_super_triangle
CreateSuperTriangle(bounds) ==
    LET dx == bounds[2] - bounds[1]
        dy == bounds[4] - bounds[3]
        delta_max == Max2(dx, dy)
        mid_x == (bounds[1] + bounds[2]) \div 2
        mid_y == (bounds[3] + bounds[4]) \div 2
    IN  << <<mid_x - SuperFactor * delta_max, mid_y - delta_max>>,
           <<mid_x, mid_y + SuperFactor * delta_max>>,
           <<mid_x + SuperFactor * delta_max, mid_y - delta_max>> >>

\* DelaunayTriangulator::new: the points with the super-triangle appended
NewPoints(ps) == ps \o CreateSuperTriangle(CalculateBounds(ps))

\* DelaunayTriangulator::new: super_triangle_indices, reversed when the
\* super-triangle's jacobian is negative
NewSuperIndices(ps) ==
    LET n == Len(ps)
        idx == <<n, n + 1, n + 2>>
    IN  IF Jacobian(idx, NewPoints(ps)) < 0 THEN <<n + 2, n + 1, n>> ELSE idx

\* triangle_contains_edge
TriangleContainsEdge(t, e) == \E k \in 1..3 : TriangleEdges(t)[k] = e

\* A cavity search that stops at the first bad triangle.
BadTrianglesFirstOnly(T, P, point_index) ==
    LET all == SelectSeq([k \in 1..Len(T) |-> k],
                         LAMBDA k : ContainsPointInCircumcircle(T[k], P, Pt(P, point_index)))
    IN  IF all = <<>> THEN <<>> ELSE <<all[1]>>

\* bowyer_watson_add_point: the positions of the triangles whose circumcircle
\* contains the point, in list order
BadTriangles(T, P, point_index) ==
    SelectSeq([k \in 1..Len(T) |-> k],
              LAMBDA k : ContainsPointInCircumcircle(T[k], P, Pt(P, point_index)))

\* A cavity search that takes no edge for shared.
NoEdgeShared(T, bad, b, e) == FALSE

\* bowyer_watson_add_point: is_shared, for an edge of bad triangle b
IsShared(T, bad, b, e) ==
    \E j \in 1..Len(bad) : bad[j] # b /\ TriangleContainsEdge(T[bad[j]], e)

\* bowyer_watson_add_point: polygon_edges, in the order they are pushed
PolygonEdges(T, bad) ==
    Flatten([j \in 1..Len(bad) |->
                SelectSeq(TriangleEdges(T[bad[j]]),
                          LAMBDA e : ~IsShared(T, bad, bad[j], e))])

\* bowyer_watson_add_point: the list with the bad triangles removed
RemoveBad(T, bad) ==
    LET keep == SelectSeq([k \in 1..Len(T) |-> k],
                          LAMBDA k : \A j \in 1..Len(bad) : bad[j] # k)
    IN  [k \in 1..Len(keep) |-> T[keep[k]]]

\* bowyer_watson_add_point: the triangle pushed for one polygon edge
NewTriangle(e, P, point_index) ==
    IF Jacobian(<<e[1], e[2], point_index>>, P) > 0
    THEN <<e[1], e[2], point_index>>
    ELSE <<e[2], e[1], point_index>>

\* An insertion that empties the list when the cavity has no boundary edge.
ClearOnEmptyCavity(T, P, point_index, bad) ==
    LET polygon_edges == PolygonEdges(T, bad)
    IN  IF polygon_edges = <<>> THEN <<>>
        ELSE RemoveBad(T, bad)
             \o [k \in 1..Len(polygon_edges) |-> NewTriangle(polygon_edges[k], P, point_index)]

\* bowyer_watson_add_point after the search for the bad triangles: they are
\* removed and one triangle is pushed for every polygon edge
RebuildCavity(T, P, point_index, bad) ==
    LET polygon_edges == PolygonEdges(T, bad)
    IN  RemoveBad(T, bad)
        \o [k \in 1..Len(polygon_edges) |-> NewTriangle(polygon_edges[k], P, point_index)]

\* bowyer_watson_add_point: the triangle list after inserting point_index
BowyerWatsonAddPoint(T, P, point_index) ==
    RebuildCavity(T, P, point_index, BadTriangles(T, P, point_index))

\* A removal that removes nothing.
KeepSuperTriangle(T, super) == T

\* remove_super_triangle
RemoveSuperTriangle(T, super) ==
    SelectSeq(T, LAMBDA t : ~\E k \in 1..3 : \E s \in 1..3 : t[k] = super[s])

\* A vertex list that keeps the super-triangle points.
AllPoints(P) == P

\* triangulate(): the points without the three appended super-triangle points
OriginalPoints(P) == SubSeq(P, 1, Len(P) - 3)

\* Mesh::new.  The denormalized fields (triangles, quads) are functions of
\* these three; quads: None and quad_indices: None are the empty list.
MeshNew(vertices, T) ==
    [vertices |-> vertices, triangle_indices |-> T, quad_indices |-> <<>>]

NoMesh == [vertices |-> <<>>, triangle_indices |-> <<>>, quad_indices |-> <<>>]

\* Option<f64>: None and Some(v)
None == [some |-> FALSE, value |-> 0]
Some(v) == [some |-> TRUE, value |-> v]

NoRequest == [max_area |-> None, min_angle |-> None, algorithm |-> "none"]

\* No annealing object exists.
NoOptimizer == [kind |-> "none"]

---------------------------------------------------------------------------
(* The triangulator's life: new, then triangulate() inserting point after
   point, removing the super-triangle and returning the Mesh. *)

Inputs == UNION {SeqsOfLen(Grid, n) : n \in 1..MaxPoints}

Init ==
    /\ input \in Inputs
    /\ points = NewPoints(input)
    /\ super_triangle_indices = NewSuperIndices(input)
    /\ triangles = <<NewSuperIndices(input)>>
    /\ next_point = 0
    /\ mesh = NoMesh
    /\ result = "none"
    /\ request = NoRequest
    /\ boundary_count = 0
    /\ iteration = 0
    /\ optimizer = NoOptimizer
    /\ vertices_before = <<>>
    /\ pc = "insert"

\* One iteration of the loop of triangulate()
InsertPoint ==
    /\ pc = "insert"
    /\ next_point < Len(points) - 3
    /\ triangles' = BowyerWatsonAddPoint(triangles, points, next_point)
    /\ next_point' = next_point + 1
    /\ UNCHANGED <<pc, input, points, super_triangle_indices, mesh, result, pipeVars>>

\* The end of triangulate(): remove_super_triangle and Mesh::new
FinishTriangulate ==
    /\ pc = "insert"
    /\ next_point = Len(points) - 3
    /\ triangles' = RemoveSuperTriangle(triangles, super_triangle_indices)
    /\ mesh' = MeshNew(OriginalPoints(points), triangles')
    /\ result' = "Mesh"
    /\ pc' = "done"
    /\ UNCHANGED <<input, points, super_triangle_indices, next_point, pipeVars>>

Next == InsertPoint \/ FinishTriangulate

Spec == Init /\ [][Next]_vars

---------------------------------------------------------------------------
(* Triangle::new followed by contains_point_in_circumcircle, as a pure
   function of three vertices and a query point. *)

InitElem ==
    /\ input \in SeqsOfLen(Grid, 4)
    /\ points = input
    /\ triangles = << <<0, 1, 2>> >>
    /\ super_triangle_indices = <<>>
    /\ next_point = 3
    /\ mesh = NoMesh
    /\ result = "none"
    /\ request = NoRequest
    /\ boundary_count = 0
    /\ iteration = 0
    /\ optimizer = NoOptimizer
    /\ vertices_before = <<>>
    /\ pc = "elem"

\* Triangle::new(vertices, points).contains_point_in_circumcircle(&points[3])
ContainsPoint ==
    /\ pc = "elem"
    /\ result' = ContainsPointInCircumcircle(triangles[1], points, Pt(points, next_point))
    /\ pc' = "tested"
    /\ UNCHANGED <<input, points, triangles, super_triangle_indices, next_point, mesh,
                   pipeVars>>

NextElem == ContainsPoint

SpecElem == InitElem /\ [][NextElem]_vars

---------------------------------------------------------------------------
(* lib.rs: the crate root, with its own copy of the triangulator and the
   delaunay pipeline generate_delaunay_mesh.

   Units.  In the specification of this pipeline (SpecLib) the unit of
   length is 0.1: the point <<6, 0>> is Point::new(0.6, 0.0), and an area
   is counted in units of 0.01.  Every comparison below is between
   quantities of one dimension, so it reads the same in either unit. *)

\* MeshRequest::new: max_area: Some(0.1), in units of 0.01
DefaultMaxArea == 10
\* MeshRequest::new: min_angle: Some(20.0), in degrees
DefaultMinAngle == 20

\* Point::distance_to, squared
DistSq(p, q) == (X(p) - X(q)) * (X(p) - X(q)) + (Y(p) - Y(q)) * (Y(p) - Y(q))

(* refine_boundary_edges: edge_length > target_edge_length, for an edge of
   squared length l2, with target_edge_length = sqrt(4 max_area / sqrt 3):
     L > T  <=>  L^2 sqrt 3 > 4 max_area  <=>  3 L^4 > 16 max_area^2 *)
EdgeTooLong(l2, max_area) == 3 * l2 * l2 > 16 * max_area * max_area

(* refine_boundary_edges: num_subdivisions = ceil(edge_length / target_edge_length),
   the least k with k >= L / T, that is with 16 max_area^2 k^4 >= 3 L^4.
   Evaluated only for a too long edge, where it is at least 2. *)
NumSubdivisions(l2, max_area) ==
    CHOOSE k \in 1..(l2 + 1) :
        /\ 16 * max_area * max_area * k * k * k * k >= 3 * l2 * l2
        /\ \A j \in 1..(k - 1) : 16 * max_area * max_area * j * j * j * j < 3 * l2 * l2

\* refine_boundary_edges: the points pushed for the edge that starts at
\* boundary_points[i]: the point itself, then the intermediate points
RefinedEdge(bp, i, max_area) ==
    LET p1 == bp[i]
        p2 == bp[(i % Len(bp)) + 1]
        l2 == DistSq(p1, p2)
    IN  IF EdgeTooLong(l2, max_area)
        THEN LET k == NumSubdivisions(l2, max_area)
             IN  <<p1>> \o [j \in 1..(k - 1) |->
                              <<X(p1) + (j * (X(p2) - X(p1))) \div k,
                                Y(p1) + (j * (Y(p2) - Y(p1))) \div k>>]
        ELSE <<p1>>

\* refine_boundary_edges
RefineBoundaryEdges(bp, max_area) ==
    Flatten([i \in 1..Len(bp) |-> RefinedEdge(bp, i, max_area)])

\* The intermediate points of every too long edge have integer coordinates.
RefinementRepresentable(bp, max_area) ==
    \A i \in 1..Len(bp) :
        LET p1 == bp[i]
            p2 == bp[(i % Len(bp)) + 1]
            l2 == DistSq(p1, p2)
        IN  EdgeTooLong(l2, max_area) =>
                LET k == NumSubdivisions(l2, max_area)
                IN  (X(p2) - X(p1)) % k = 0 /\ (Y(p2) - Y(p1)) % k = 0

\* generate_delaunay_mesh: the boundary handed to DelaunayTriangulator::new
RefinedBoundary(bp, req) ==
    IF req.max_area.some THEN RefineBoundaryEdges(bp, req.max_area.value) ELSE bp

\* The midpoint of the bounding box has integer coordinates.
MidpointRepresentable(ps) ==
    LET b == CalculateBounds(ps)
    IN  (b[1] + b[2]) % 2 = 0 /\ (b[3] + b[4]) % 2 = 0

\* lib.rs DelaunayTriangulator::new: the vertices of the first triangle
LibSuperVertices(P) ==
    LET n == Len(P)
        v == <<n - 3, n - 2, n - 1>>
    IN  IF Jacobian(v, P) < 0 THEN <<v[3], v[2], v[1]>> ELSE v

\* lib.rs add_point: the triangle pushed for one polygon edge, flipped only
\* when its jacobian is negative
LibNewTriangle(e, P, point_index) ==
    IF Jacobian(<<e[1], e[2], point_index>>, P) < 0
    THEN <<e[2], e[1], point_index>>
    ELSE <<e[1], e[2], point_index>>

\* lib.rs add_point
LibAddPoint(T, P, point_index) ==
    LET bad == BadTriangles(T, P, point_index)
        polygon == PolygonEdges(T, bad)
    IN  RemoveBad(T, bad)
        \o [k \in 1..Len(polygon) |-> LibNewTriangle(polygon[k], P, point_index)]

\* lib.rs remove_super_triangle: keeps the triangles whose vertices are all
\* below points.len() - 3
LibRemoveSuperTriangle(T, P) ==
    SelectSeq(T, LAMBDA t : \A k \in 1..3 : t[k] < Len(P) - 3)

(* One step of the ray-casting loop of is_point_inside_polygon, for the
   point (nx / q, ny / q) with q > 0 and the polygon edge from pj to pi:
     ((pi.y > y) != (pj.y > y))
       && (x < (pj.x - pi.x) * (y - pi.y) / (pj.y - pi.y) + pi.x)
   The second test is only evaluated when pj.y # pi.y; it is multiplied by
   q and by pj.y - pi.y, reversing when the latter is negative. *)
Crosses(pi, pj, nx, ny, q) ==
    /\ (q * Y(pi) > ny) # (q * Y(pj) > ny)
    /\ LET dy == Y(pj) - Y(pi)
           lhs == (nx - q * X(pi)) * dy
           rhs == (X(pj) - X(pi)) * (ny - q * Y(pi))
       IN  IF dy > 0 THEN lhs < rhs ELSE lhs > rhs

\* is_point_inside_polygon for the point (nx / q, ny / q) and the polygon of
\* the first count points of P: inside is toggled at every crossing
IsPointInsidePolygon(P, count, nx, ny, q) ==
    Cardinality({i \in 0..(count - 1) :
                    Crosses(Pt(P, i), Pt(P, (i + count - 1) % count), nx, ny, q)}) % 2 = 1

\* Three times the centroid of a triangle
CentroidSum(t, P) ==
    <<X(Pt(P, t[1])) + X(Pt(P, t[2])) + X(Pt(P, t[3])),
      Y(Pt(P, t[1])) + Y(Pt(P, t[2])) + Y(Pt(P, t[3]))>>

\* The centroid of triangle t lies inside the boundary polygon
CentroidInside(t, P, count) ==
    IsPointInsidePolygon(P, count, CentroidSum(t, P)[1], CentroidSum(t, P)[2], 3)

\* filter_outside_triangles
FilterOutsideTriangles(T, P, count) ==
    SelectSeq(T, LAMBDA t : CentroidInside(t, P, count))

\* Triangle::area(points) > max_area, with area = 0.5 * |jacobian|
AreaExceeds(t, P, max_area) == Abs(Jacobian(t, P)) > 2 * max_area

\* refine_interior: bad_triangles of one pass, as positions in the list
RefineBadTriangles(T, P, max_area, count) ==
    SelectSeq([k \in 1..Len(T) |-> k],
              LAMBDA k : AreaExceeds(T[k], P, max_area) /\ CentroidInside(T[k], P, count))

\* The number of triangles refine_interior refines in one pass: take(5)
RefinePerPass == 5
\* max_iterations of refine_interior
RefineMaxIterations == 50
\* max_points of refine_interior
RefineMaxPoints == 10000

\* refine_interior: triangles_to_refine
TrianglesToRefine(bad) == SubSeq(bad, 1, IF Len(bad) < RefinePerPass THEN Len(bad) ELSE RefinePerPass)

\* refine_interior: three times the new_points of one pass
NewPointSums(T, P, max_area, count) ==
    LET to_refine == TrianglesToRefine(RefineBadTriangles(T, P, max_area, count))
    IN  [k \in 1..Len(to_refine) |-> CentroidSum(T[to_refine[k]], P)]

\* The centroids of one pass have integer coordinates.
CentroidsRepresentable(sums) ==
    \A k \in 1..Len(sums) : sums[k][1] % 3 = 0 /\ sums[k][2] % 3 = 0

\* refine_interior: "Add new points one by one".  The pair <<triangles, points>>
\* after pushing and inserting each of the new points.
RECURSIVE LibInsertAll(_, _, _)
LibInsertAll(T, P, new_points) ==
    IF new_points = <<>> \/ Len(P) >= RefineMaxPoints THEN <<T, P>>
    ELSE LET P2 == Append(P, Head(new_points))
         IN  LibInsertAll(LibAddPoint(T, P2, Len(P)), P2, Tail(new_points))

\* Mesh::validate_jacobians, triangles: the positions (0-based) of the
\* triangles whose jacobian is <= 0
NonPositiveTriangles(m) ==
    SelectSeq([k \in 1..Len(m.triangle_indices) |-> k - 1],
              LAMBDA k : Jacobian(m.triangle_indices[k + 1], m.vertices) <= 0)

(* generate_mesh of lib.rs with algorithm "delaunay": the guard of
   generate_mesh, then generate_delaunay_mesh step by step. *)

\* The longest boundary of a request.
MaxBoundary == 4

\* Boundary coordinates are drawn from {0, 3, 6} (0.0, 0.3, 0.6).
LibCoords == {0, 3, 6}
LibGrid == LibCoords \X LibCoords

\* The values of max_area besides None: the default 0.1, and 0.16
MaxAreaChoices == {DefaultMaxArea, 16}

LibRequests ==
    {[max_area |-> a, min_angle |-> m, algorithm |-> "delaunay"] :
        a \in {None} \cup {Some(v) : v \in MaxAreaChoices},
        m \in {None, Some(DefaultMinAngle)}}

\* MeshRequest::new(geometry)
DefaultRequest ==
    [max_area |-> Some(DefaultMaxArea), min_angle |-> Some(DefaultMinAngle),
     algorithm |-> "delaunay"]

\* The requests whose refined boundary and super-triangle have integer
\* coordinates.
LibRepresentable(bp, req) ==
    /\ req.max_area.some => RefinementRepresentable(bp, req.max_area.value)
    /\ MidpointRepresentable(RefinedBoundary(bp, req))

InitLib ==
    /\ input \in UNION {SeqsOfLen(LibGrid, n) : n \in 2..MaxBoundary}
    /\ request \in LibRequests
    /\ LibRepresentable(input, request)
    /\ points = <<>>
    /\ triangles = <<>>
    /\ super_triangle_indices = <<>>
    /\ next_point = 0
    /\ mesh = NoMesh
    /\ result = "none"
    /\ boundary_count = 0
    /\ iteration = 0
    /\ optimizer = NoOptimizer
    /\ vertices_before = <<>>
    /\ pc = "start"

\* generate_mesh: the guard on the number of points
LibRejectShort ==
    /\ pc = "start"
    /\ Len(input) < 3
    /\ result' = "Err"
    /\ pc' = "done"
    /\ UNCHANGED <<input, points, triangles, super_triangle_indices, next_point, mesh,
                   pipeVars>>

\* generate_delaunay_mesh: refine_boundary_edges and DelaunayTriangulator::new
LibNewTriangulator ==
    /\ pc = "start"
    /\ Len(input) >= 3
    /\ points' = NewPoints(RefinedBoundary(input, request))
    /\ triangles' = <<LibSuperVertices(points')>>
    /\ boundary_count' = Len(points') - 3
    /\ next_point' = 0
    /\ pc' = "add"
    /\ UNCHANGED <<input, super_triangle_indices, mesh, result, request, iteration,
                   annealVars>>

\* generate_delaunay_mesh: one iteration of "for i in 0..refined_boundary_count";
\* after the last one refine_interior is entered when both options are given
LibAddBoundaryPoint ==
    /\ pc = "add"
    /\ next_point < boundary_count
    /\ triangles' = LibAddPoint(triangles, points, next_point)
    /\ next_point' = next_point + 1
    /\ pc' = IF next_point' < boundary_count THEN "add"
             ELSE IF request.max_area.some /\ request.min_angle.some THEN "refine"
             ELSE "finish"
    /\ UNCHANGED <<input, points, super_triangle_indices, mesh, result, pipeVars>>

\* refine_interior: one iteration of the while loop.  A pass whose centroids
\* do not have integer coordinates ends the modelled run.
LibRefinePass ==
    /\ pc = "refine"
    /\ LET sums == NewPointSums(triangles, points, request.max_area.value, boundary_count)
       IN  IF iteration >= RefineMaxIterations \/ Len(points) >= RefineMaxPoints
              \/ sums = <<>>
           THEN /\ pc' = "finish"
                /\ UNCHANGED <<points, triangles, iteration>>
           ELSE IF ~CentroidsRepresentable(sums)
           THEN /\ pc' = "unrepresentable"
                /\ UNCHANGED <<points, triangles, iteration>>
           ELSE LET new_points == [k \in 1..Len(sums) |->
                                      <<sums[k][1] \div 3, sums[k][2] \div 3>>]
                    after == LibInsertAll(triangles, points, new_points)
                IN  /\ triangles' = after[1]
                    /\ points' = after[2]
                    /\ iteration' = iteration + 1
                    /\ pc' = "refine"
    /\ UNCHANGED <<input, super_triangle_indices, next_point, mesh, result, request,
                   boundary_count, annealVars>>

\* generate_delaunay_mesh: remove_super_triangle, filter_outside_triangles,
\* the vertex list, Mesh::new and validate_jacobians
LibFinish ==
    /\ pc = "finish"
    /\ triangles' = FilterOutsideTriangles(LibRemoveSuperTriangle(triangles, points),
                                           points, boundary_count)
    /\ mesh' = MeshNew(OriginalPoints(points), triangles')
    /\ result' = IF NonPositiveTriangles(mesh') = <<>> THEN "Ok" ELSE "Err"
    /\ pc' = "done"
    /\ UNCHANGED <<input, points, super_triangle_indices, next_point, pipeVars>>

NextLib ==
    \/ LibRejectShort
    \/ LibNewTriangulator
    \/ LibAddBoundaryPoint
    \/ LibRefinePass
    \/ LibFinish

SpecLib == InitLib /\ [][NextLib]_vars

---------------------------------------------------------------------------
(* annealing.rs: GeneralAnnealingOptimizer.  The unit of length is 1.0.
   A rational option (temperature, cooling_rate, target_area, min_area) is a
   pair <<numerator, denominator>> with a positive denominator. *)

RECURSIVE Gcd(_, _)
Gcd(a, b) == IF b = 0 THEN a ELSE Gcd(b, a % b)

\* A fraction in lowest terms
Reduced(r) == LET g == Gcd(r[1], r[2]) IN IF g = 0 THEN r ELSE <<r[1] \div g, r[2] \div g>>

\* temperature *= self.cooling_rate
Cooled(temperature, cooling_rate) ==
    Reduced(<<temperature[1] * cooling_rate[1], temperature[2] * cooling_rate[2]>>)

\* temperature > 0.1
AboveTenth(temperature) == 10 * temperature[1] > temperature[2]

\* The Delaunay triangulation of a whole point list: DelaunayTriangulator::new
\* and triangulate().  (Once no triangle is left, an insertion finds no bad
\* triangle and changes nothing.)
RECURSIVE InsertPoints(_, _, _)
InsertPoints(T, P, i) ==
    IF i >= Len(P) - 3 \/ T = <<>> THEN T
    ELSE InsertPoints(BowyerWatsonAddPoint(T, P, i), P, i + 1)

Triangulate(ps) ==
    LET P == NewPoints(ps)
        super == NewSuperIndices(ps)
    IN  MeshNew(OriginalPoints(P), RemoveSuperTriangle(InsertPoints(<<super>>, P, 0), super))

\* is_point_inside_boundary for the point (nx / q, ny / q): true when no
\* boundary was set
IsPointInsideBoundary(boundary_points, nx, ny, q) ==
    IF boundary_points = <<>> THEN TRUE
    ELSE IsPointInsidePolygon(boundary_points, Len(boundary_points), nx, ny, q)

\* is_boundary_vertex: distance_sq < 1e-6 to some boundary point.  Between
\* points with integer coordinates that is equality.
IsBoundaryVertex(boundary_points, vertex) ==
    \E k \in 1..Len(boundary_points) : DistSq(vertex, boundary_points[k]) = 0

\* count_boundary_vertices
CountBoundaryVertices(boundary_points, vertices) ==
    IF boundary_points = <<>> THEN 0
    ELSE LET boundary_vertex_count ==
                 Cardinality({k \in 1..Len(vertices) :
                                 IsBoundaryVertex(boundary_points, vertices[k])})
             third == Len(vertices) \div 3
         IN  IF boundary_vertex_count < Len(boundary_points)
             THEN IF Len(boundary_points) < third THEN Len(boundary_points) ELSE third
             ELSE boundary_vertex_count

\* Twice Triangle::volume, the area of the triangle
Volume2(t, P) == Abs(Jacobian(t, P))

\* A search that also flags the triangles of area target_area * 2.0.
FindOversizedOrEqual(m, target_area) ==
    SelectSeq([k \in 1..Len(m.triangle_indices) |-> k],
              LAMBDA k : Volume2(m.triangle_indices[k], m.vertices) * target_area[2]
                            >= 4 * target_area[1])

\* find_oversized_triangles: area > target_area * 2.0, as positions in the list
FindOversizedTriangles(m, target_area) ==
    SelectSeq([k \in 1..Len(m.triangle_indices) |-> k],
              LAMBDA k : Volume2(m.triangle_indices[k], m.vertices) * target_area[2]
                            > 4 * target_area[1])

\* find_undersized_triangles: area < min_area, as positions in the list
FindUndersizedTriangles(m, min_area) ==
    SelectSeq([k \in 1..Len(m.triangle_indices) |-> k],
              LAMBDA k : Volume2(m.triangle_indices[k], m.vertices) * min_area[2]
                            < 2 * min_area[1])

(* The vertex list during one pass of adaptive_size_refinement is carried as
   [ok, vertices]: ok turns FALSE when a new coordinate is not an integer,
   which ends the modelled run. *)

\* split_triangle for each oversized triangle in turn: the centroid is pushed
\* when it is inside the boundary
RECURSIVE SplitTriangles(_, _, _, _)
SplitTriangles(st, T, oversized, boundary_points) ==
    IF oversized = <<>> \/ ~st.ok THEN st
    ELSE LET sum == CentroidSum(T[Head(oversized)], st.vertices)
             rest == Tail(oversized)
         IN  IF ~IsPointInsideBoundary(boundary_points, sum[1], sum[2], 3)
             THEN SplitTriangles(st, T, rest, boundary_points)
             ELSE IF sum[1] % 3 # 0 \/ sum[2] % 3 # 0
             THEN [st EXCEPT !.ok = FALSE]
             ELSE SplitTriangles([st EXCEPT !.vertices = Append(@, <<sum[1] \div 3, sum[2] \div 3>>)],
                                 T, rest, boundary_points)

\* split_triangle returned Ok(true) for some oversized triangle
SomeSplit(m, oversized, boundary_points) ==
    \E j \in 1..Len(oversized) :
        LET sum == CentroidSum(m.triangle_indices[oversized[j]], m.vertices)
        IN  IsPointInsideBoundary(boundary_points, sum[1], sum[2], 3)

(* handle_small_triangle, the loop over the three vertices: with c the
   centroid computed before the loop, vertex v goes to v + (c - v) * 0.1,
   that is (27 v + 3 c) / 30, when that point is inside the boundary. *)
RECURSIVE MoveTowardCentroid(_, _, _, _)
MoveTowardCentroid(st, vs, sum, boundary_points) ==
    IF vs = <<>> \/ ~st.ok THEN st
    ELSE LET vertex_idx == Head(vs)
             vertex == Pt(st.vertices, vertex_idx)
             nx == 27 * X(vertex) + sum[1]
             ny == 27 * Y(vertex) + sum[2]
         IN  IF vertex_idx >= Len(st.vertices)
                \/ ~IsPointInsideBoundary(boundary_points, nx, ny, 30)
             THEN MoveTowardCentroid(st, Tail(vs), sum, boundary_points)
             ELSE IF nx % 30 # 0 \/ ny % 30 # 0
             THEN [st EXCEPT !.ok = FALSE]
             ELSE MoveTowardCentroid(
                      [st EXCEPT !.vertices[vertex_idx + 1] = <<nx \div 30, ny \div 30>>],
                      Tail(vs), sum, boundary_points)

\* handle_small_triangle for each undersized triangle in turn
RECURSIVE HandleSmallTriangles(_, _, _, _)
HandleSmallTriangles(st, T, undersized, boundary_points) ==
    IF undersized = <<>> \/ ~st.ok THEN st
    ELSE LET t == T[Head(undersized)]
         IN  HandleSmallTriangles(
                 MoveTowardCentroid(st, t, CentroidSum(t, st.vertices), boundary_points),
                 T, Tail(undersized), boundary_points)

\* The vertices after the two loops of one pass of adaptive_size_refinement
RefinedVertices(m, opt) ==
    LET oversized == FindOversizedTriangles(m, opt.target_area)
        undersized == FindUndersizedTriangles(m, opt.min_area)
        split == SplitTriangles([ok |-> TRUE, vertices |-> m.vertices],
                                m.triangle_indices, oversized, opt.boundary_points)
    IN  HandleSmallTriangles(split, m.triangle_indices, undersized, opt.boundary_points)

\* changed, at the end of one pass: handle_small_triangle always returns Ok(true)
RefinementChanged(m, opt) ==
    \/ SomeSplit(m, FindOversizedTriangles(m, opt.target_area), opt.boundary_points)
    \/ FindUndersizedTriangles(m, opt.min_area) # <<>>

\* max_refinement_iterations of adaptive_size_refinement
MaxRefinementIterations == 3

(* GeneralAnnealingOptimizer at work on a mesh the caller built: the caller
   creates the optimizer (new or from_options), hands it the boundary with
   set_boundary and calls optimize_mesh(&mut mesh). *)

\* The longest annealing run: max_iterations is drawn from 0..MaxIterations.
MaxIterations == 1

\* The displacements (dx, dy) the random number generator is taken to return.
Displacements == {-1, 0, 1} \X {-1, 0, 1}

\* dx and dy are drawn from -perturbation_radius..perturbation_radius, with
\* perturbation_radius = temperature * 0.05
WithinRadius(d, temperature) ==
    /\ -temperature[1] <= 20 * d * temperature[2]
    /\ 20 * d * temperature[2] < temperature[1]

\* GeneralAnnealingOptimizer::new(): temperature 1000.0, cooling_rate 0.995,
\* target_area 0.1, min_area 0.01; then set_boundary
NewOptimizer(boundary_points, max_iterations, target_area, min_area) ==
    [kind |-> "general",
     temperature |-> <<1000, 1>>,
     cooling_rate |-> <<199, 200>>,
     max_iterations |-> max_iterations,
     target_area |-> target_area,
     min_area |-> min_area,
     boundary_points |-> boundary_points]

\* fill_boundary_with_triangles of paving.rs: the fan around vertex 0
FanTriangle(P, i) ==
    IF Jacobian(<<0, i, i + 1>>, P) < 0 THEN <<0, i + 1, i>> ELSE <<0, i, i + 1>>

FillBoundaryWithTriangles(P, count) ==
    [i \in 1..(count - 2) |-> FanTriangle(P, i)]

\* Coordinates of the caller's mesh
OptGrid == {0, 10, 20} \X {0, 1, 30}

\* target_area and min_area: the defaults 0.1 and 0.01, or 1000 and 151
SizeOptions == {<< <<1, 10>>, <<1, 100>> >>, << <<1000, 1>>, <<151, 1>> >>}

\* The caller's meshes: the vertices are the boundary polygon followed by the
\* interior points; the triangles are the Delaunay triangulation of the
\* vertices without the triangles outside the boundary, or the fan over the
\* boundary.
CallerMeshes(vertices, count) ==
    {MeshNew(vertices, FilterOutsideTriangles(Triangulate(vertices).triangle_indices,
                                              vertices, count)),
     MeshNew(vertices, FillBoundaryWithTriangles(vertices, count))}

InitOpt ==
    /\ input \in SeqsOfLen(OptGrid, 4)
    /\ MidpointRepresentable(input)
    /\ boundary_count \in 3..4
    /\ mesh \in CallerMeshes(input, boundary_count)
    /\ NonPositiveTriangles(mesh) = <<>>
    /\ \E max_iterations \in 0..MaxIterations, size \in SizeOptions :
           optimizer = NewOptimizer(SubSeq(input, 1, boundary_count), max_iterations,
                                    size[1], size[2])
    /\ points = <<>>
    /\ triangles = <<>>
    /\ super_triangle_indices = <<>>
    /\ next_point = 0
    /\ result = "none"
    /\ request = NoRequest
    /\ iteration = 0
    /\ vertices_before = <<>>
    /\ pc = "optimize"

optFrame == <<input, points, triangles, super_triangle_indices, next_point, request>>

\* optimize_mesh, up to the loop: a mesh with quads or without triangles is
\* returned as it is
OptimizeMeshStart ==
    /\ pc = "optimize"
    /\ vertices_before' = mesh.vertices
    /\ IF mesh.quad_indices # <<>> \/ mesh.triangle_indices = <<>>
       THEN /\ result' = "Ok"
            /\ pc' = "optimized"
            /\ UNCHANGED <<boundary_count, iteration>>
       ELSE /\ boundary_count' = CountBoundaryVertices(optimizer.boundary_points, mesh.vertices)
            /\ iteration' = 0
            /\ pc' = "anneal"
            /\ UNCHANGED result
    /\ UNCHANGED <<optFrame, mesh, optimizer>>

\* The condition of the while loop of optimize_mesh
GeneralLoopRuns ==
    iteration < optimizer.max_iterations /\ AboveTenth(optimizer.temperature)

\* The end of every iteration: temperature *= cooling_rate; iterations += 1
GeneralLoopStep ==
    /\ optimizer' = [optimizer EXCEPT !.temperature = Cooled(@, optimizer.cooling_rate)]
    /\ iteration' = iteration + 1
    /\ UNCHANGED <<optFrame, pc, result, boundary_count, vertices_before>>

\* The move of vertex_idx by (dx, dy) is carried out
GeneralMoves(vertex_idx, d) ==
    LET old_vertex == Pt(mesh.vertices, vertex_idx)
    IN  /\ IsPointInsideBoundary(optimizer.boundary_points,
                                 X(old_vertex) + d[1], Y(old_vertex) + d[2], 1)
        /\ ~IsBoundaryVertex(optimizer.boundary_points, old_vertex)

\* The vertex list with vertex_idx moved by (dx, dy)
MovedVertices(vertices, vertex_idx, d) ==
    [vertices EXCEPT ![vertex_idx + 1] = <<X(@) + d[1], Y(@) + d[2]>>]

\* An iteration whose move is carried out and accepted:
\* quality_improvement > 0.0 || rng.gen::<f64>() < (quality_improvement / temperature).exp()
GeneralAcceptMove ==
    /\ pc = "anneal"
    /\ GeneralLoopRuns
    /\ \E vertex_idx \in boundary_count..(Len(mesh.vertices) - 1), d \in Displacements :
          /\ WithinRadius(d[1], optimizer.temperature)
          /\ WithinRadius(d[2], optimizer.temperature)
          /\ GeneralMoves(vertex_idx, d)
          /\ mesh' = [mesh EXCEPT !.vertices = MovedVertices(@, vertex_idx, d)]
    /\ GeneralLoopStep

\* An iteration whose move is carried out and rejected: the old vertex is put
\* back.  (The quality is not modelled: a rejection is taken to be possible
\* after every move.  It leaves the mesh a move by (0, 0) leaves.)
GeneralRejectMove ==
    /\ pc = "anneal"
    /\ GeneralLoopRuns
    /\ \E vertex_idx \in boundary_count..(Len(mesh.vertices) - 1), d \in Displacements :
          /\ WithinRadius(d[1], optimizer.temperature)
          /\ WithinRadius(d[2], optimizer.temperature)
          /\ GeneralMoves(vertex_idx, d)
    /\ mesh' = mesh
    /\ GeneralLoopStep

\* An iteration without a move that goes on to the next one at once, leaving
\* the temperature as it is.
GeneralSkipWithoutCooling ==
    /\ pc = "anneal"
    /\ GeneralLoopRuns
    /\ Len(mesh.vertices) <= boundary_count
           \/ \E vertex_idx \in boundary_count..(Len(mesh.vertices) - 1), d \in Displacements :
                 ~GeneralMoves(vertex_idx, d)
    /\ iteration' = iteration + 1
    /\ UNCHANGED <<optFrame, mesh, pc, result, boundary_count, annealVars>>

\* An iteration without a move: no vertex beyond boundary_count, or the new
\* position is outside the boundary, or the vertex is a boundary vertex
GeneralSkipMove ==
    /\ pc = "anneal"
    /\ GeneralLoopRuns
    /\ \/ Len(mesh.vertices) <= boundary_count
       \/ \E vertex_idx \in boundary_count..(Len(mesh.vertices) - 1), d \in Displacements :
             /\ WithinRadius(d[1], optimizer.temperature)
             /\ WithinRadius(d[2], optimizer.temperature)
             /\ ~GeneralMoves(vertex_idx, d)
    /\ mesh' = mesh
    /\ GeneralLoopStep

\* The loop of optimize_mesh ends and adaptive_size_refinement begins
GeneralLoopExit ==
    /\ pc = "anneal"
    /\ ~GeneralLoopRuns
    /\ iteration' = 0
    /\ pc' = "refine"
    /\ UNCHANGED <<optFrame, mesh, result, boundary_count, annealVars>>

\* One pass of adaptive_size_refinement: the splits, the moves, and
\* retriangulate_mesh when something changed.  After the last pass, or a pass
\* without change, optimize_mesh returns Ok(()).
GeneralRefinePass ==
    /\ pc = "refine"
    /\ LET after == RefinedVertices(mesh, optimizer)
       IN  IF ~RefinementChanged(mesh, optimizer)
           THEN /\ result' = "Ok"
                /\ pc' = "optimized"
                /\ UNCHANGED <<mesh, iteration>>
           ELSE IF ~after.ok \/ ~MidpointRepresentable(after.vertices)
           THEN /\ pc' = "unrepresentable"
                /\ UNCHANGED <<mesh, result, iteration>>
           ELSE /\ mesh' = [mesh EXCEPT
                               !.vertices = after.vertices,
                               !.triangle_indices = Triangulate(after.vertices).triangle_indices]
                /\ iteration' = iteration + 1
                /\ pc' = IF iteration' < MaxRefinementIterations THEN "refine" ELSE "optimized"
                /\ result' = IF iteration' < MaxRefinementIterations THEN result ELSE "Ok"
    /\ UNCHANGED <<optFrame, boundary_count, annealVars>>

NextOpt ==
    \/ OptimizeMeshStart
    \/ GeneralAcceptMove
    \/ GeneralRejectMove
    \/ GeneralSkipMove
    \/ GeneralLoopExit
    \/ GeneralRefinePass

SpecOpt == InitOpt /\ [][NextOpt]_vars

---------------------------------------------------------------------------
(* generation.rs: generate_mesh and its three pipelines, with paving.rs and
   the GridAnnealingMeshGenerator of annealing.rs.  The unit of length is
   1.0. *)

\* elements.rs, Quad::min_jacobian: with
\*   a = -p1 + p2 + p3 - p4, b = -p1 - p2 + p3 + p4, g = p1 - p2 + p3 - p4
\* the jacobian at (xi, eta) is (c0 + c1 xi + c2 eta) / 16, and its minimum
\* over the four Gauss points (+-1/sqrt 3, +-1/sqrt 3) is
\* (c0 - (|c1| + |c2|) / sqrt 3) / 16.
QuadCoefficients(q, P) ==
    LET p1 == Pt(P, q[1])  p2 == Pt(P, q[2])  p3 == Pt(P, q[3])  p4 == Pt(P, q[4])
        ax == -X(p1) + X(p2) + X(p3) - X(p4)
        ay == -Y(p1) + Y(p2) + Y(p3) - Y(p4)
        bx == -X(p1) - X(p2) + X(p3) + X(p4)
        by == -Y(p1) - Y(p2) + Y(p3) + Y(p4)
        gx == X(p1) - X(p2) + X(p3) - X(p4)
        gy == Y(p1) - Y(p2) + Y(p3) - Y(p4)
    IN  <<ax * by - bx * ay, ax * gy - gx * ay, gx * by - bx * gy>>

\* quad.min_jacobian(points) <= 0.0:
\*   c0 <= (|c1| + |c2|) / sqrt 3  <=>  c0 <= 0 or 3 c0^2 <= (|c1| + |c2|)^2
MinJacobianNonPositive(q, P) ==
    LET c == QuadCoefficients(q, P)
        s == Abs(c[2]) + Abs(c[3])
    IN  c[1] <= 0 \/ 3 * c[1] * c[1] <= s * s

\* Mesh::validate_jacobians, quads: the positions (0-based) of the quads whose
\* minimum jacobian is <= 0
NonPositiveQuads(m) ==
    SelectSeq([k \in 1..Len(m.quad_indices) |-> k - 1],
              LAMBDA k : MinJacobianNonPositive(m.quad_indices[k + 1], m.vertices))

\* A validation that looks at the triangles only.
ValidateTrianglesOnly(m) == NonPositiveTriangles(m) = <<>>

\* Mesh::validate_jacobians returns Ok(())
ValidateJacobians(m) == NonPositiveTriangles(m) = <<>> /\ NonPositiveQuads(m) = <<>>

\* Mesh::new_with_quads
MeshNewWithQuads(vertices, T, Q) ==
    [vertices |-> vertices, triangle_indices |-> T, quad_indices |-> Q]

\* paving.rs: grid_size = (target_size.sqrt() * 0.8).max(1.0), which is 1.0
\* up to target_size 1.5625 and 8.0 for target_size 100.0
PavingGridSize(target_size) == IF 16 * target_size <= 25 THEN 1 ELSE 8

\* annealing.rs: grid_spacing = (target_area.sqrt() * 0.7).max(1.0), which is
\* 1.0 up to target_area 2.04 and 7.0 for target_area 100.0
AnnealingGridSpacing(target_area) == IF 49 * target_area <= 100 THEN 1 ELSE 7

\* The grid loops of paving.rs and annealing.rs: y runs from min_y + spacing
\* while y < max_y, x from min_x + spacing while x < max_x, and the point is
\* kept when it is inside the polygon.
GridSteps(lo, hi, spacing) == IF hi - lo <= spacing THEN 0 ELSE (hi - lo - 1) \div spacing

GridRow(polygon, bounds, spacing, j) ==
    SelectSeq([i \in 1..GridSteps(bounds[1], bounds[2], spacing) |->
                  <<bounds[1] + i * spacing, bounds[3] + j * spacing>>],
              LAMBDA p : IsPointInsidePolygon(polygon, Len(polygon), X(p), Y(p), 1))

InsideGridPoints(polygon, spacing) ==
    LET bounds == CalculateBounds(polygon)
    IN  Flatten([j \in 1..GridSteps(bounds[3], bounds[4], spacing) |->
                    GridRow(polygon, bounds, spacing, j)])

\* ((max - min) / grid_size).ceil()
CeilDiv(a, b) == (a + b - 1) \div b


\* paving.rs, the body of the quad loops for one (row, col): nothing when
\* base_idx + cols + 1 is not an index of points, else the quad, turned
\* around when its minimum jacobian is not positive.  (point_exists_and_inside
\* is true of every index below points.len().)
PavingQuad(P, count, cols, row, col) ==
    LET base_idx == count + row * cols + col
        vertices == <<base_idx, base_idx + 1, base_idx + cols + 1, base_idx + cols>>
    IN  IF base_idx + cols + 1 < Len(P)
        THEN IF MinJacobianNonPositive(vertices, P)
             THEN << <<base_idx, base_idx + cols, base_idx + cols + 1, base_idx + 1>> >>
             ELSE <<vertices>>
        ELSE <<>>

\* for row in 0..rows-1 { for col in 0..cols-1 { ... } }
PavingQuads(P, count, cols, rows) ==
    Flatten([r \in 1..(rows - 1) |->
                Flatten([c \in 1..(cols - 1) |-> PavingQuad(P, count, cols, r - 1, c - 1)])])

\* rows - 1 or cols - 1 is evaluated for a usize that is 0
PavingUnderflows(cols, rows) == rows = 0 \/ (rows >= 2 /\ cols = 0)

\* PavingMeshGenerator::generate_mesh up to Mesh::new_with_quads
PavingMesh(boundary, target_size) ==
    LET grid_size == PavingGridSize(target_size)
        bounds == CalculateBounds(boundary)
        P == boundary \o InsideGridPoints(boundary, grid_size)
        cols == CeilDiv(bounds[2] - bounds[1], grid_size)
        rows == CeilDiv(bounds[4] - bounds[3], grid_size)
    IN  MeshNewWithQuads(P, FillBoundaryWithTriangles(P, Len(boundary)),
                         PavingQuads(P, Len(boundary), cols, rows))

\* generation.rs, is_point_inside_polygon for the centroid of a triangle
CentroidInsideBoundary(t, P, boundary) ==
    IsPointInsidePolygon(boundary, Len(boundary), CentroidSum(t, P)[1], CentroidSum(t, P)[2], 3)

\* A filter that keeps every triangle.
KeepAllTriangles(m, boundary) == MeshNew(m.vertices, m.triangle_indices)

\* filter_mesh_outside_boundary: the vertices stay, the triangles whose
\* centroid is outside the boundary go
FilterMeshOutsideBoundary(m, boundary) ==
    MeshNew(m.vertices,
            SelectSeq(m.triangle_indices,
                      LAMBDA t : CentroidInsideBoundary(t, m.vertices, boundary)))

(* generate_hexagonal_grid(boundary, target_edge_length) with
   target_edge_length T = sqrt(4 max_area / sqrt 3) and
   hex_height h = T sqrt 3 / 2, when the grid has one row and one column and
   no boundary edge is longer than T:
     T > max_x - min_x  <=>  16 max_area^2 > 3 (max_x - min_x)^4
     h > max_y - min_y  <=>  3 max_area^2 > (max_y - min_y)^4          *)
HexGridIsOnePoint(boundary, max_area) ==
    LET bounds == CalculateBounds(boundary)
        dx == bounds[2] - bounds[1]
        dy == bounds[4] - bounds[3]
    IN  /\ 16 * max_area * max_area > 3 * dx * dx * dx * dx
        /\ 3 * max_area * max_area > dy * dy * dy * dy
        /\ \A i \in 1..Len(boundary) :
               ~EdgeTooLong(DistSq(boundary[i], boundary[(i % Len(boundary)) + 1]), max_area)

\* The grid point (min_x, min_y) when it is inside the boundary, then
\* sample_boundary_points: the boundary points
GenerateHexagonalGrid(boundary, max_area) ==
    LET bounds == CalculateBounds(boundary)
    IN  (IF IsPointInsidePolygon(boundary, Len(boundary), bounds[1], bounds[3], 1)
         THEN << <<bounds[1], bounds[3]>> >> ELSE <<>>) \o boundary

\* generate_delaunay_mesh: the points handed to DelaunayTriangulator::new
DelaunayPoints(boundary, max_area) ==
    IF max_area.some THEN GenerateHexagonalGrid(boundary, max_area.value) ELSE boundary


(* GridAnnealingMeshGenerator.  The generator is the record
     [kind, boundary_points, internal_points, triangles, temperature,
      cooling_rate, quality_threshold, max_iterations]
   where temperature is the local variable of optimize_with_annealing. *)

\* boundary_points followed by internal_points
AllGridPoints(g) == g.boundary_points \o g.internal_points

\* refine_boundary_points, generate_internal_grid and
\* create_initial_triangulation on a fresh generator
InitialGenerator(boundary, target_area, temperature, cooling_rate, quality_threshold, max_iterations) ==
    LET refined == RefineBoundaryEdges(boundary, target_area)
        internal == InsideGridPoints(refined, AnnealingGridSpacing(target_area))
    IN  [kind |-> "grid",
         boundary_points |-> refined,
         internal_points |-> internal,
         triangles |-> Triangulate(refined \o internal).triangle_indices,
         temperature |-> temperature,
         cooling_rate |-> cooling_rate,
         quality_threshold |-> quality_threshold,
         max_iterations |-> max_iterations]

\* dx and dy are drawn from -perturbation_radius..perturbation_radius, with
\* perturbation_radius = temperature * 0.1
WithinGridRadius(d, temperature) ==
    /\ -temperature[1] <= 10 * d * temperature[2]
    /\ 10 * d * temperature[2] < temperature[1]

(* calculate_mesh_quality is the mean of (min_angle / 60) * min(jacobian, 1)
   over the triangles with a positive jacobian, or 0.0: a number from 0 to 1.
   The angles are not modelled: current_quality > quality_threshold is taken
   to be possible when the threshold is below 1, and to fail possibly when
   the threshold is at least 0. *)
QualityCanExceed(quality_threshold) == quality_threshold[1] < quality_threshold[2]
QualityCanFallShort(quality_threshold) == quality_threshold[1] >= 0

\* The generator after internal_points[point_idx] = new_point and
\* update_triangulation_after_move
MovedGenerator(g, point_idx, d) ==
    LET internal == [g.internal_points EXCEPT ![point_idx + 1] = <<X(@) + d[1], Y(@) + d[2]>>]
    IN  [g EXCEPT !.internal_points = internal,
                  !.triangles = Triangulate(g.boundary_points \o internal).triangle_indices]

\* create_final_mesh, before the validation
FinalMesh(g) == MeshNew(AllGridPoints(g), g.triangles)

(* The requests.  annealing_options is the record
   [max_iterations, quality_threshold]; temperature and cooling_rate are left
   out of the options, so that they are 1000.0 and 0.995. *)

\* max_area for the delaunay pipeline: None, and 100.0
DelaunayAreas == {None, Some(100)}
\* max_area for the paving pipeline: None (target_size 100.0), and 1.0
PavingAreas == {None, Some(1)}
\* max_area for the annealing pipeline: None (target_area 100.0), and 2.0
AnnealingAreas == {None, Some(2)}
\* quality_threshold of the annealing options
QualityThresholds == {None}

GenRequests ==
    {[max_area |-> a, min_angle |-> None, algorithm |-> "delaunay",
      annealing_options |-> [max_iterations |-> 0, quality_threshold |-> None]] :
        a \in DelaunayAreas}
    \cup
    {[max_area |-> a, min_angle |-> None, algorithm |-> "paving",
      annealing_options |-> [max_iterations |-> 0, quality_threshold |-> None]] :
        a \in PavingAreas}
    \cup
    {[max_area |-> a, min_angle |-> None, algorithm |-> "annealing",
      annealing_options |-> [max_iterations |-> n, quality_threshold |-> q]] :
        a \in AnnealingAreas, n \in 0..MaxIterations, q \in QualityThresholds}

\* request.max_area.unwrap_or(100.0)
AreaOrDefault(max_area) == IF max_area.some THEN max_area.value ELSE 100

\* annealing_options.quality_threshold.unwrap_or(request.min_angle.unwrap_or(20.0) / 60.0)
ThresholdOf(req) ==
    IF req.annealing_options.quality_threshold.some
    THEN <<req.annealing_options.quality_threshold.value, 1>>
    ELSE Reduced(<<IF req.min_angle.some THEN req.min_angle.value ELSE DefaultMinAngle, 60>>)

\* The requests whose points all have integer coordinates.
GenRepresentable(bp, req) ==
    /\ MidpointRepresentable(bp)
    /\ (req.algorithm = "delaunay" /\ req.max_area.some /\ Len(bp) >= 3)
           => HexGridIsOnePoint(bp, req.max_area.value)
    /\ (req.algorithm = "annealing" /\ Len(bp) >= 3)
           => RefinementRepresentable(bp, AreaOrDefault(req.max_area))


(* generate_mesh(request), and then the caller's
   GeneralAnnealingOptimizer::optimize_mesh on the mesh it returned. *)

\* The boundary points of a request
GenGrid == {0, 2, 4} \X {0, 4}

\* A boundary of three points in counter-clockwise order that are nearly on
\* one line: (5, 4), (0, 10), (8, 0), with jacobian 2
SliverBoundary == << <<5, 4>>, <<0, 10>>, <<8, 0>> >>

\* A boundary of four points in counter-clockwise order with a reflex corner
\* at (4, 2)
NotchedBoundary == << <<0, 0>>, <<4, 2>>, <<8, 0>>, <<4, 8>> >>

GenInputs ==
    UNION {SeqsOfLen(GenGrid, n) : n \in 1..MaxPoints} \cup {SliverBoundary, NotchedBoundary}

InitGen ==
    /\ input \in GenInputs
    /\ request \in GenRequests
    /\ GenRepresentable(input, request)
    /\ points = <<>>
    /\ triangles = <<>>
    /\ super_triangle_indices = <<>>
    /\ next_point = 0
    /\ mesh = NoMesh
    /\ result = "none"
    /\ boundary_count = 0
    /\ iteration = 0
    /\ optimizer = NoOptimizer
    /\ vertices_before = <<>>
    /\ pc = "start"

genFrame == <<input, points, triangles, super_triangle_indices, next_point, request,
              boundary_count, vertices_before>>

\* What a pipeline returns for the mesh it built
Validated(m) == IF ValidateJacobians(m) THEN "Ok" ELSE "Err"

\* The least number of points generate_mesh takes
MinPoints == 3

\* The least number of points generate_paving_mesh takes
PavingMinPoints == 4

\* Err("Need at least 3 points to generate mesh") and
\* Err("Need at least 4 points for paving mesh")
ErrNeedPoints == "ErrNeedPoints"

\* generate_mesh: fewer than 3 points
GenRejectShort ==
    /\ pc = "start"
    /\ Len(input) < MinPoints
    /\ result' = ErrNeedPoints
    /\ pc' = "returned"
    /\ UNCHANGED <<genFrame, mesh, iteration, optimizer>>

\* generate_paving_mesh: fewer than 4 points
GenPavingRejectShort ==
    /\ pc = "start"
    /\ Len(input) >= MinPoints
    /\ Len(input) < PavingMinPoints
    /\ request.algorithm = "paving"
    /\ result' = ErrNeedPoints
    /\ pc' = "returned"
    /\ UNCHANGED <<genFrame, mesh, iteration, optimizer>>

\* The bounding box of the request in grid cells: cols and rows of paving.rs
PavingCols == CeilDiv(CalculateBounds(input)[2] - CalculateBounds(input)[1],
                      PavingGridSize(AreaOrDefault(request.max_area)))
PavingRows == CeilDiv(CalculateBounds(input)[4] - CalculateBounds(input)[3],
                      PavingGridSize(AreaOrDefault(request.max_area)))

\* generate_paving_mesh and PavingMeshGenerator::generate_mesh
GenPaving ==
    /\ pc = "start"
    /\ Len(input) >= PavingMinPoints
    /\ request.algorithm = "paving"
    /\ ~PavingUnderflows(PavingCols, PavingRows)
    /\ mesh' = PavingMesh(input, AreaOrDefault(request.max_area))
    /\ result' = Validated(mesh')
    /\ pc' = "returned"
    /\ UNCHANGED <<genFrame, iteration, optimizer>>

\* PavingMeshGenerator::generate_mesh when rows - 1 or cols - 1 underflows:
\* a panic where overflow is checked, and a loop of 2^64 - 1 rounds where it
\* wraps
GenPavingUnderflow ==
    /\ pc = "start"
    /\ Len(input) >= PavingMinPoints
    /\ request.algorithm = "paving"
    /\ PavingUnderflows(PavingCols, PavingRows)
    /\ pc' \in {"panicked", "looping"}
    /\ UNCHANGED <<genFrame, mesh, result, iteration, optimizer>>

\* generate_delaunay_mesh: the point list and triangulate()
GenDelaunayTriangulate ==
    /\ pc = "start"
    /\ Len(input) >= MinPoints
    /\ request.algorithm = "delaunay"
    /\ points' = DelaunayPoints(input, request.max_area)
    /\ mesh' = Triangulate(points')
    /\ pc' = "filter"
    /\ UNCHANGED <<input, triangles, super_triangle_indices, next_point, request,
                   boundary_count, vertices_before, result, iteration, optimizer>>

\* generate_delaunay_mesh: filter_mesh_outside_boundary and the validation
GenDelaunayFinish ==
    /\ pc = "filter"
    /\ mesh' = FilterMeshOutsideBoundary(mesh, input)
    /\ result' = Validated(mesh')
    /\ pc' = "returned"
    /\ UNCHANGED <<genFrame, iteration, optimizer>>

\* generate_annealing_mesh up to the loop of optimize_with_annealing
GenAnnealingStart ==
    /\ pc = "start"
    /\ Len(input) >= MinPoints
    /\ request.algorithm = "annealing"
    /\ optimizer' = InitialGenerator(input, AreaOrDefault(request.max_area),
                                     <<1000, 1>>, <<199, 200>>, ThresholdOf(request),
                                     request.annealing_options.max_iterations)
    /\ iteration' = 0
    /\ pc' = "grid_anneal"
    /\ UNCHANGED <<genFrame, mesh, result>>


\* The condition of the while loop of optimize_with_annealing
GridLoopRuns ==
    iteration < optimizer.max_iterations /\ AboveTenth(optimizer.temperature)

\* The end of every iteration: temperature *= cooling_rate; iterations += 1
GridLoopStep(g) ==
    /\ optimizer' = [g EXCEPT !.temperature = Cooled(@, g.cooling_rate)]
    /\ iteration' = iteration + 1
    /\ UNCHANGED <<genFrame, mesh, result, pc>>

\* The new position of internal_points[point_idx] is inside the polygon of
\* the (refined) boundary points
GridMoves(point_idx, d) ==
    LET old_point == Pt(optimizer.internal_points, point_idx)
    IN  IsPointInsidePolygon(optimizer.boundary_points, Len(optimizer.boundary_points),
                             X(old_point) + d[1], Y(old_point) + d[2], 1)

\* An iteration whose move is carried out and kept
GridAcceptMove ==
    /\ pc = "grid_anneal"
    /\ GridLoopRuns
    /\ QualityCanFallShort(optimizer.quality_threshold)
    /\ \E point_idx \in 0..(Len(optimizer.internal_points) - 1), d \in Displacements :
          /\ WithinGridRadius(d[1], optimizer.temperature)
          /\ WithinGridRadius(d[2], optimizer.temperature)
          /\ GridMoves(point_idx, d)
          /\ GridLoopStep(MovedGenerator(optimizer, point_idx, d))

\* A move that fails the acceptance test and is left in place all the same
GridRejectWithoutRestore == GridAcceptMove

\* An iteration whose move is carried out and taken back: the old point
\* returns and update_triangulation_after_move rebuilds the triangles of the
\* old points
GridRejectMove ==
    /\ pc = "grid_anneal"
    /\ GridLoopRuns
    /\ QualityCanFallShort(optimizer.quality_threshold)
    /\ \E point_idx \in 0..(Len(optimizer.internal_points) - 1), d \in Displacements :
          /\ WithinGridRadius(d[1], optimizer.temperature)
          /\ WithinGridRadius(d[2], optimizer.temperature)
          /\ GridMoves(point_idx, d)
    /\ GridLoopStep([optimizer EXCEPT !.triangles = Triangulate(AllGridPoints(optimizer)).triangle_indices])

\* An iteration without a move: no internal point, or the new position is
\* outside the polygon
GridSkipMove ==
    /\ pc = "grid_anneal"
    /\ GridLoopRuns
    /\ QualityCanFallShort(optimizer.quality_threshold)
    /\ \/ optimizer.internal_points = <<>>
       \/ \E point_idx \in 0..(Len(optimizer.internal_points) - 1), d \in Displacements :
             /\ WithinGridRadius(d[1], optimizer.temperature)
             /\ WithinGridRadius(d[2], optimizer.temperature)
             /\ ~GridMoves(point_idx, d)
    /\ GridLoopStep(optimizer)

\* create_final_mesh and the return of generate_mesh
CreateFinalMesh ==
    /\ mesh' = FinalMesh(optimizer)
    /\ result' = Validated(mesh')
    /\ pc' = "returned"
    /\ UNCHANGED <<genFrame, iteration, optimizer>>

\* The loop ends on its condition
GridLoopExit ==
    /\ pc = "grid_anneal"
    /\ ~GridLoopRuns
    /\ CreateFinalMesh

\* The loop ends on current_quality > quality_threshold
GridQualityBreak ==
    /\ pc = "grid_anneal"
    /\ GridLoopRuns
    /\ QualityCanExceed(optimizer.quality_threshold)
    /\ CreateFinalMesh

\* target_area and min_area of the caller's optimizer: 0.5 and 0.01
GenSizeOptions == {<< <<1, 2>>, <<1, 100>> >>}

\* The caller hands the returned mesh to an optimizer whose boundary is the
\* boundary of the request
CallOptimizeMesh ==
    /\ pc = "returned"
    /\ result = "Ok"
    /\ \E max_iterations \in 0..MaxIterations, size \in GenSizeOptions :
           optimizer' = NewOptimizer(input, max_iterations, size[1], size[2])
    /\ result' = "none"
    /\ pc' = "optimize"
    /\ UNCHANGED <<genFrame, mesh, iteration>>

NextGen ==
    \/ GenRejectShort
    \/ GenPavingRejectShort
    \/ GenPaving
    \/ GenPavingUnderflow
    \/ GenDelaunayTriangulate
    \/ GenDelaunayFinish
    \/ GenAnnealingStart
    \/ GridAcceptMove
    \/ GridRejectMove
    \/ GridSkipMove
    \/ GridLoopExit
    \/ GridQualityBreak
    \/ CallOptimizeMesh
    \/ NextOpt

SpecGen == InitGen /\ [][NextGen]_vars


---------------------------------------------------------------------------
(* mesh.rs: Mesh::validate_jacobians as a function of the mesh *)

\* quad.min_jacobian(points), as the pair <<c0, s>> that stands for
\* (c0 - s / sqrt 3) / 16
QuadMinJacobian(q, P) ==
    LET c == QuadCoefficients(q, P)
    IN  <<c[1], Abs(c[2]) + Abs(c[3])>>

\* Err(format!("{} {} has non-positive ... Jacobian: {}", element, i, jacobian))
JacobianErr(element, i, jacobian) ==
    [ok |-> FALSE, element |-> element, index |-> i, jacobian |-> jacobian]

JacobianOk == [ok |-> TRUE, element |-> "", index |-> 0, jacobian |-> 0]

\* A validation that goes through the quads before the triangles.
ValidateQuadsFirst(m) ==
    IF NonPositiveQuads(m) # <<>>
    THEN LET i == Head(NonPositiveQuads(m))
         IN  JacobianErr("Quad", i, QuadMinJacobian(m.quad_indices[i + 1], m.vertices))
    ELSE IF NonPositiveTriangles(m) # <<>>
    THEN LET i == Head(NonPositiveTriangles(m))
         IN  JacobianErr("Triangle", i, Jacobian(m.triangle_indices[i + 1], m.vertices))
    ELSE JacobianOk

\* Mesh::validate_jacobians: the loop over the triangles returns at the first
\* jacobian <= 0.0, then the loop over the quads at the first
\* min_jacobian <= 0.0
ValidateJacobiansResult(m) ==
    IF NonPositiveTriangles(m) # <<>>
    THEN LET i == Head(NonPositiveTriangles(m))
         IN  JacobianErr("Triangle", i, Jacobian(m.triangle_indices[i + 1], m.vertices))
    ELSE IF NonPositiveQuads(m) # <<>>
    THEN LET i == Head(NonPositiveQuads(m))
         IN  JacobianErr("Quad", i, QuadMinJacobian(m.quad_indices[i + 1], m.vertices))
    ELSE JacobianOk

\* The vertices of the meshes handed to validate_jacobians: the corners of a
\* square and the middle of its lower side
ValidateVertices == << <<0, 0>>, <<2, 0>>, <<2, 2>>, <<0, 2>>, <<1, 0>> >>

\* Index triples: counter-clockwise, clockwise, and on one line
ValidateTriangles ==
    {<<0, 1, 2>>, <<0, 2, 3>>, <<1, 2, 4>>, <<0, 2, 1>>, <<3, 2, 0>>, <<0, 4, 1>>, <<1, 4, 0>>}

\* Index quadruples: counter-clockwise, clockwise, self-crossing, and with a
\* straight corner
ValidateQuads == {<<0, 1, 2, 3>>, <<1, 2, 3, 0>>, <<0, 3, 2, 1>>, <<0, 2, 1, 3>>, <<0, 4, 1, 2>>}

\* The longest element list of such a mesh
MaxElements == 2

InitValidate ==
    /\ mesh \in {MeshNewWithQuads(ValidateVertices, T, Q) :
                    T \in UNION {SeqsOfLen(ValidateTriangles, n) : n \in 0..MaxElements},
                    Q \in UNION {SeqsOfLen(ValidateQuads, n) : n \in 0..MaxElements}}
    /\ input = <<>>
    /\ request = NoRequest
    /\ points = <<>>
    /\ triangles = <<>>
    /\ super_triangle_indices = <<>>
    /\ next_point = 0
    /\ result = "none"
    /\ boundary_count = 0
    /\ iteration = 0
    /\ optimizer = NoOptimizer
    /\ vertices_before = <<>>
    /\ pc = "start"

\* mesh.validate_jacobians()
ValidateCall ==
    /\ pc = "start"
    /\ result' = ValidateJacobiansResult(mesh)
    /\ pc' = "returned"
    /\ UNCHANGED <<input, points, triangles, super_triangle_indices, next_point, mesh,
                   request, boundary_count, iteration, optimizer, vertices_before>>

NextValidate == ValidateCall

SpecValidate == InitValidate /\ [][NextValidate]_vars


---------------------------------------------------------------------------
(* retriangulate_mesh on a mesh that passes validate_jacobians, with the
   rounding of the circumcircle test.

   For a point p that lies exactly on the circumcircle of a triangle,
   dist_squared and circumradius_squared are two f64 roundings of one number:
   both are computed from the rounded circumcenter, dist_squared with p and
   circumradius_squared with the first vertex.  Below 2^20 the two differ by
   less than the margin 1e-10 and the test is false.  From 2^20 on one unit
   in the last place of circumradius_squared is 2^-32 or more, so
   circumradius_squared - 1e-10 rounds back to circumradius_squared, and the
   test is true whenever dist_squared comes out lower than
   circumradius_squared by one unit or more.  Which of the two it is depends
   on the rounding of ux and uy; the specification leaves it open. *)

(* circumradius_squared >= 2^20, for a triangle with d # 0: with the
   circumcenter (Ux / d, Uy / d) and the first vertex a, and rx = Ux - ax d,
   ry = Uy - ay d, it is rx^2 + ry^2 >= 2^20 d^2.  The squares have more
   bits than a wide integer holds, so the comparison is made on quotients and
   remainders: |rx| = qx |d| + ex and |ry| = qy |d| + ey with
   0 <= ex, ey < |d|, and k = 2^20 - qx^2 - qy^2.  The inequality is
     k d^2 <= 2 |d| (qx ex + qy ey) + ex^2 + ey^2,
   whose right side is below (2 qx + 2 qy + 2) d^2. *)
CircumradiusSquaredIsLarge(v, P) ==
    LET a == Pt(P, v[1])
        d == Abs(CircumD(v, P))
        rx == Abs(CircumUx(v, P) - X(a) * CircumD(v, P))
        ry == Abs(CircumUy(v, P) - Y(a) * CircumD(v, P))
        qx == rx \div d
        qy == ry \div d
        ex == rx % d
        ey == ry % d
        k == 1048576 - qx * qx - qy * qy
        rest == k * d - 2 * (qx * ex + qy * ey)
    IN  IF qx >= 1024 \/ qy >= 1024 \/ k <= 0 THEN TRUE
        ELSE IF k > 2 * qx + 2 * qy + 2 THEN FALSE
        ELSE IF rest <= 0 THEN TRUE
        ELSE IF rest >= 2 * d THEN FALSE
        ELSE WideSign(WideSub(WideAdd(WideMul(ex, ex), WideMul(ey, ey)),
                              WideMul(rest, d))) >= 0

\* contains_point_in_circumcircle is decided by the rounding: p is on the
\* circle, it is not the vertex the radius is measured to, and
\* circumradius_squared is 2^20 or more
RoundingDecides(v, P, p) ==
    /\ ~IsDegenerate(v, P)
    /\ WideSign(CircumN(v, P, p)) = 0
    /\ p # Pt(P, v[1])
    /\ CircumradiusSquaredIsLarge(v, P)

\* bowyer_watson_add_point: the lists of bad triangles the search can end
\* with, each in list order
PossibleBadTriangles(T, P, point_index) ==
    LET p == Pt(P, point_index)
        open == {k \in 1..Len(T) : RoundingDecides(T[k], P, p)}
    IN  {SelectSeq([k \in 1..Len(T) |-> k],
                   LAMBDA k : ContainsPointInCircumcircle(T[k], P, p) \/ k \in chosen) :
            chosen \in SUBSET open}

\* The vertices of the meshes: the points of a square in any order, three
\* points nearly on one line with the second of them once more, and a
\* triangle with its second point twice in a row
RetriGrid == {0, 2} \X {0, 2}
SliverWithDuplicate == << <<0, 0>>, <<9, 1>>, <<16, 2>>, <<9, 1>> >>
RepeatedPoint == << <<1, 1>>, <<13, 0>>, <<13, 0>>, <<5, 10>> >>
RetriVertices ==
    UNION {SeqsOfLen(RetriGrid, n) : n \in 3..MaxPoints} \cup {SliverWithDuplicate, RepeatedPoint}

\* The triangle lists of the meshes: none, or the first three vertices
RetriTriangles == {<<>>, << <<0, 1, 2>> >>, << <<0, 2, 1>> >>}

InitRetri ==
    /\ mesh \in {MeshNew(V, T) : V \in RetriVertices, T \in RetriTriangles}
    /\ ValidateJacobians(mesh)
    /\ input = <<>>
    /\ request = NoRequest
    /\ points = <<>>
    /\ triangles = <<>>
    /\ super_triangle_indices = <<>>
    /\ next_point = 0
    /\ result = "none"
    /\ boundary_count = 0
    /\ iteration = 0
    /\ optimizer = NoOptimizer
    /\ vertices_before = mesh.vertices
    /\ pc = "start"

retriFrame == <<input, request, boundary_count, iteration, optimizer, vertices_before>>

\* retriangulate_mesh: DelaunayTriangulator::new(mesh.vertices.clone())
RetriangulateNew ==
    /\ pc = "start"
    /\ points' = NewPoints(mesh.vertices)
    /\ super_triangle_indices' = NewSuperIndices(mesh.vertices)
    /\ triangles' = <<NewSuperIndices(mesh.vertices)>>
    /\ next_point' = 0
    /\ pc' = "insert"
    /\ UNCHANGED <<retriFrame, mesh, result>>

\* triangulate(): one round of the loop
RetriangulateInsert ==
    /\ pc = "insert"
    /\ next_point < Len(points) - 3
    /\ \E bad \in PossibleBadTriangles(triangles, points, next_point) :
          triangles' = RebuildCavity(triangles, points, next_point, bad)
    /\ next_point' = next_point + 1
    /\ UNCHANGED <<retriFrame, pc, points, super_triangle_indices, mesh, result>>

\* The end of triangulate() and of retriangulate_mesh, and validate_jacobians
\* on the mesh
RetriangulateFinish ==
    /\ pc = "insert"
    /\ next_point = Len(points) - 3
    /\ triangles' = RemoveSuperTriangle(triangles, super_triangle_indices)
    /\ mesh' = MeshNew(OriginalPoints(points), triangles')
    /\ result' = Validated(mesh')
    /\ pc' = "returned"
    /\ UNCHANGED <<retriFrame, points, super_triangle_indices, next_point>>

NextRetri == RetriangulateNew \/ RetriangulateInsert \/ RetriangulateFinish

SpecRetri == InitRetri /\ [][NextRetri]_vars


---------------------------------------------------------------------------
(* The first loop of one pass of adaptive_size_refinement, call by call:
   find_oversized_triangles, then split_triangle for every triangle it
   flagged.  iteration counts the calls made, result is what the last call
   returned.  The calls push vertices and leave the triangles alone, so the
   list find_oversized_triangles returned at the start of the pass is the one
   it returns for the mesh of every later state. *)

\* target_area: the default 0.1, and 75.0, half the area of the triangle
\* (0,0), (10,0), (20,30); min_area is the default 0.01
SplitSizeOptions == {<< <<1, 10>>, <<1, 100>> >>, << <<75, 1>>, <<1, 100>> >>}

InitSplit ==
    /\ input \in SeqsOfLen(OptGrid, 4)
    /\ MidpointRepresentable(input)
    /\ boundary_count \in 3..4
    /\ mesh \in CallerMeshes(input, boundary_count)
    /\ NonPositiveTriangles(mesh) = <<>>
    /\ \E size \in SplitSizeOptions :
           optimizer = NewOptimizer(SubSeq(input, 1, boundary_count), 0, size[1], size[2])
    /\ points = <<>>
    /\ triangles = <<>>
    /\ super_triangle_indices = <<>>
    /\ next_point = 0
    /\ result = "none"
    /\ request = NoRequest
    /\ iteration = 0
    /\ vertices_before = mesh.vertices
    /\ pc = "split"

\* The triangle of the next call of split_triangle, as a position in the list
NextOversized ==
    FindOversizedTriangles(mesh, optimizer.target_area)[iteration + 1]

\* split_triangle(mesh, triangle_idx) for the next flagged triangle
SplitTriangleCall ==
    /\ pc = "split"
    /\ iteration < Len(FindOversizedTriangles(mesh, optimizer.target_area))
    /\ LET after == SplitTriangles([ok |-> TRUE, vertices |-> mesh.vertices],
                                   mesh.triangle_indices, <<NextOversized>>,
                                   optimizer.boundary_points)
       IN  IF ~after.ok
           THEN /\ pc' = "unrepresentable"
                /\ UNCHANGED <<mesh, result, iteration>>
           ELSE /\ mesh' = [mesh EXCEPT !.vertices = after.vertices]
                /\ result' = IF SomeSplit(mesh, <<NextOversized>>, optimizer.boundary_points)
                             THEN "Ok(true)" ELSE "Ok(false)"
                /\ iteration' = iteration + 1
                /\ pc' = pc
    /\ UNCHANGED <<optFrame, boundary_count, annealVars>>

\* The loop over the oversized triangles is over
SplitLoopExit ==
    /\ pc = "split"
    /\ iteration = Len(FindOversizedTriangles(mesh, optimizer.target_area))
    /\ pc' = "undersized"
    /\ UNCHANGED <<optFrame, mesh, result, iteration, boundary_count, annealVars>>

NextSplit == SplitTriangleCall \/ SplitLoopExit

SpecSplit == InitSplit /\ [][NextSplit]_vars


---------------------------------------------------------------------------
(* delaunay.rs: DelaunayTriangulator::generate_adaptive_triangulation(boundary,
   target_area, max_iterations).  request is the record [target_area,
   max_iterations] of the call; points, triangles and super_triangle_indices
   are the fields of its triangulator, mesh is its local triangulation. *)

\* target_area of the call: 9.0 and 36.0, for which the target_edge_length
\* (target_area * 4.0).sqrt() of sample_boundary_points is 6.0 and 12.0
AdaptiveTargetAreas == {9, 36}

TargetEdgeLength(target_area) == CHOOSE r \in 1..(2 * target_area) : r * r = 4 * target_area

\* sample_boundary_points: num_subdivisions = ceil(edge_length / target_edge_length)
\* for an edge of squared length l2 > target_edge_length^2
SampleSubdivisions(l2, target_area) ==
    LET T == TargetEdgeLength(target_area)
    IN  CHOOSE k \in 1..l2 : k * k * T * T >= l2 /\ (k - 1) * (k - 1) * T * T < l2

\* sample_boundary_points: boundary[i] and the points put on its edge
SampledEdge(boundary, i, target_area) ==
    LET p1 == boundary[i]
        p2 == boundary[(i % Len(boundary)) + 1]
        l2 == DistSq(p1, p2)
        T == TargetEdgeLength(target_area)
    IN  IF l2 > T * T
        THEN LET n == SampleSubdivisions(l2, target_area)
             IN  <<p1>> \o [j \in 1..(n - 1) |->
                               <<X(p1) + (j * (X(p2) - X(p1))) \div n,
                                 Y(p1) + (j * (Y(p2) - Y(p1))) \div n>>]
        ELSE <<p1>>

SampleBoundaryPoints(boundary, target_area) ==
    Flatten([i \in 1..Len(boundary) |-> SampledEdge(boundary, i, target_area)])

\* The center of the bounding box and the three points center_x + (i - 2) * offset
\* with offset = (max_x - min_x) / 4.0, those that are inside the boundary
StrategicPoints(boundary) ==
    LET b == CalculateBounds(boundary)
        center_x == (b[1] + b[2]) \div 2
        center_y == (b[3] + b[4]) \div 2
        offset == (b[2] - b[1]) \div 4
        tests == <<<<center_x, center_y>>, <<center_x - offset, center_y>>,
                   <<center_x, center_y>>, <<center_x + offset, center_y>>>>
    IN  SelectSeq(tests,
                  LAMBDA p : IsPointInsidePolygon(boundary, Len(boundary), X(p), Y(p), 1))

\* The points of the call have integer coordinates: the points put on the
\* edges, the center, and the offset
AdaptiveRepresentable(boundary, target_area) ==
    /\ MidpointRepresentable(boundary)
    /\ (CalculateBounds(boundary)[2] - CalculateBounds(boundary)[1]) % 4 = 0
    /\ \A i \in 1..Len(boundary) :
          LET p1 == boundary[i]
              p2 == boundary[(i % Len(boundary)) + 1]
              l2 == DistSq(p1, p2)
              n == SampleSubdivisions(l2, target_area)
          IN  l2 > TargetEdgeLength(target_area) * TargetEdgeLength(target_area) =>
                  \A j \in 1..(n - 1) :
                      (j * (X(p2) - X(p1))) % n = 0 /\ (j * (Y(p2) - Y(p1))) % n = 0

\* triangulate() on a triangulator with the points P and the triangles T:
\* every point but the last three is inserted, and the triangles with a
\* vertex at super_triangle_indices go
TriangulatorRun(P, T, super) ==
    MeshNew(OriginalPoints(P), RemoveSuperTriangle(InsertPoints(T, P, 0), super))

\* area > target_area * 1.5, as positions in the list
LargeTriangles(m, target_area) ==
    SelectSeq([k \in 1..Len(m.triangle_indices) |-> k],
              LAMBDA k : Volume2(m.triangle_indices[k], m.vertices) > 3 * target_area)

\* The large triangles whose centroid is inside the boundary
SplittableTriangles(m, boundary, target_area) ==
    SelectSeq(LargeTriangles(m, target_area),
              LAMBDA k : IsPointInsidePolygon(boundary, Len(boundary),
                                              CentroidSum(m.triangle_indices[k], m.vertices)[1],
                                              CentroidSum(m.triangle_indices[k], m.vertices)[2], 3))

\* new_points: the centroids of those triangles
NewCentroids(m, boundary, target_area) ==
    LET ks == SplittableTriangles(m, boundary, target_area)
    IN  [j \in 1..Len(ks) |->
            <<CentroidSum(m.triangle_indices[ks[j]], m.vertices)[1] \div 3,
              CentroidSum(m.triangle_indices[ks[j]], m.vertices)[2] \div 3>>]

\* The centroids have integer coordinates
NewCentroidsRepresentable(m, boundary, target_area) ==
    LET ks == SplittableTriangles(m, boundary, target_area)
    IN  \A j \in 1..Len(ks) :
            /\ CentroidSum(m.triangle_indices[ks[j]], m.vertices)[1] % 3 = 0
            /\ CentroidSum(m.triangle_indices[ks[j]], m.vertices)[2] % 3 = 0

\* The boundaries of the calls: three points, not on one line
AdaptiveGrid == {0, 6, 12} \X {0, 6, 12}

\* The largest max_iterations of a call
MaxAdaptiveIterations == 1

InitAdaptive ==
    /\ input \in SeqsOfLen(AdaptiveGrid, 3)
    /\ Jacobian(<<0, 1, 2>>, input) # 0
    /\ request \in [target_area : AdaptiveTargetAreas, max_iterations : 0..MaxAdaptiveIterations]
    /\ AdaptiveRepresentable(input, request.target_area)
    /\ points = <<>>
    /\ triangles = <<>>
    /\ super_triangle_indices = <<>>
    /\ next_point = 0
    /\ mesh = NoMesh
    /\ result = "none"
    /\ boundary_count = 0
    /\ iteration = 0
    /\ optimizer = NoOptimizer
    /\ vertices_before = <<>>
    /\ pc = "start"

adaptiveFrame == <<input, request, next_point, boundary_count, optimizer, vertices_before>>

\* The points of the call and DelaunayTriangulator::new(points)
AdaptiveNew ==
    /\ pc = "start"
    /\ LET ps == SampleBoundaryPoints(input, request.target_area) \o StrategicPoints(input)
       IN  /\ points' = NewPoints(ps)
           /\ super_triangle_indices' = NewSuperIndices(ps)
           /\ triangles' = <<NewSuperIndices(ps)>>
    /\ pc' = "new"
    /\ UNCHANGED <<adaptiveFrame, mesh, result, iteration>>

\* let mut triangulation = triangulator.triangulate()?
AdaptiveTriangulate ==
    /\ pc = "new"
    /\ mesh' = TriangulatorRun(points, triangles, super_triangle_indices)
    /\ triangles' = mesh'.triangle_indices
    /\ iteration' = 0
    /\ pc' = "triangulated"
    /\ UNCHANGED <<adaptiveFrame, points, super_triangle_indices, result>>

\* A round of the loop goes on to its end
AdaptiveLoopRuns ==
    /\ iteration < request.max_iterations
    /\ SplittableTriangles(mesh, input, request.target_area) # <<>>

\* A round of the loop: triangulator.points.extend(new_points) and
\* triangulation = triangulator.triangulate()?
AdaptiveExtend ==
    /\ pc = "triangulated"
    /\ AdaptiveLoopRuns
    /\ IF NewCentroidsRepresentable(mesh, input, request.target_area)
       THEN /\ points' = points \o NewCentroids(mesh, input, request.target_area)
            /\ mesh' = TriangulatorRun(points', triangles, super_triangle_indices)
            /\ triangles' = mesh'.triangle_indices
            /\ iteration' = iteration + 1
            /\ pc' = pc
       ELSE /\ pc' = "unrepresentable"
            /\ UNCHANGED <<points, mesh, triangles, iteration>>
    /\ UNCHANGED <<adaptiveFrame, super_triangle_indices, result>>

\* Ok(triangulator.triangles)
AdaptiveReturn ==
    /\ pc = "triangulated"
    /\ ~AdaptiveLoopRuns
    /\ result' = "Ok"
    /\ pc' = "returned"
    /\ UNCHANGED <<adaptiveFrame, points, triangles, super_triangle_indices, mesh, iteration>>

NextAdaptive == AdaptiveNew \/ AdaptiveTriangulate \/ AdaptiveExtend \/ AdaptiveReturn

SpecAdaptive == InitAdaptive /\ [][NextAdaptive]_vars


---------------------------------------------------------------------------
(* delaunay.rs: DelaunayTriangulator::refine_interior, called on a
   triangulator whose first boundary_count points are the boundary polygon
   and have been inserted with add_point.  The points behind the boundary
   are copies of its first point that were handed to new() and never
   inserted; they only count in points.len(). *)

\* Coordinates of the boundary points
RefineGrid == {0, 18, 36} \X {0, 18, 36}

\* max_area
RefineAreas == {100, 1000}

\* points.len() when refine_interior is entered, besides the length without
\* any further point
RefineStartLengths == {RefineMaxPoints - 2, RefineMaxPoints - 1, RefineMaxPoints}

\* The boundaries that come with the long point lists
PaddedBoundaries ==
    {<< <<0, 0>>, <<36, 0>>, <<0, 36>> >>, << <<0, 0>>, <<36, 18>>, <<18, 36>> >>}

\* add_point(i) for i in from..count-1
RECURSIVE AddPoints(_, _, _, _)
AddPoints(T, P, from, count) ==
    IF from >= count THEN T
    ELSE AddPoints(BowyerWatsonAddPoint(T, P, from), P, from + 1, count)

\* An insertion loop without the test of points.len() against max_points.
RECURSIVE RefineInsertUnbounded(_, _, _)
RefineInsertUnbounded(T, P, new_points) ==
    IF new_points = <<>> THEN <<T, P>>
    ELSE LET P2 == Append(P, Head(new_points))
         IN  RefineInsertUnbounded(BowyerWatsonAddPoint(T, P2, Len(P)), P2, Tail(new_points))

\* refine_interior: the loop over new_points, which stops at max_points.  The
\* pair <<triangles, points>> after it.
RECURSIVE RefineInsertAll(_, _, _)
RefineInsertAll(T, P, new_points) ==
    IF new_points = <<>> \/ Len(P) >= RefineMaxPoints THEN <<T, P>>
    ELSE LET P2 == Append(P, Head(new_points))
         IN  RefineInsertAll(BowyerWatsonAddPoint(T, P2, Len(P)), P2, Tail(new_points))

\* DelaunayTriangulator::new for the boundary followed by copies of its first
\* point, len points with the super-triangle: the copies do not change the
\* bounds, so that the super-triangle is the one of the boundary
PaddedPoints(boundary, len) ==
    boundary \o [k \in 1..(len - 3 - Len(boundary)) |-> boundary[1]]
             \o CreateSuperTriangle(CalculateBounds(boundary))

\* DelaunayTriangulator::new: super_triangle_indices for the point list P
LastThree(P) ==
    LET n == Len(P) - 3
        idx == <<n, n + 1, n + 2>>
    IN  IF Jacobian(idx, P) < 0 THEN <<n + 2, n + 1, n>> ELSE idx

InitRefine ==
    /\ input \in SeqsOfLen(RefineGrid, 3)
    /\ MidpointRepresentable(input)
    /\ \E len \in {Len(input) + 3} \cup (IF input \in PaddedBoundaries THEN RefineStartLengths ELSE {}) :
          /\ points = PaddedPoints(input, len)
          /\ super_triangle_indices = LastThree(points)
          /\ triangles = AddPoints(<<LastThree(points)>>, points, 0, Len(input))
    /\ boundary_count = Len(input)
    /\ \E max_area \in RefineAreas :
          request = [max_area |-> Some(max_area), min_angle |-> Some(DefaultMinAngle),
                     algorithm |-> "none"]
    /\ next_point = 0
    /\ mesh = NoMesh
    /\ result = "none"
    /\ iteration = 0
    /\ optimizer = NoOptimizer
    /\ vertices_before = <<>>
    /\ pc = "refine"

refineFrame == <<input, super_triangle_indices, next_point, mesh, request, boundary_count,
                 annealVars>>

\* The condition of the while loop of refine_interior
RefineLoopRuns == iteration < RefineMaxIterations /\ Len(points) < RefineMaxPoints

\* One iteration of the while loop that reaches iteration += 1.  A pass whose
\* centroids do not have integer coordinates ends the modelled run.
RefineInteriorPass ==
    /\ pc = "refine"
    /\ RefineLoopRuns
    /\ LET sums == NewPointSums(triangles, points, request.max_area.value, boundary_count)
       IN  /\ sums # <<>>
           /\ IF ~CentroidsRepresentable(sums)
              THEN /\ pc' = "unrepresentable"
                   /\ UNCHANGED <<points, triangles, iteration>>
              ELSE LET new_points == [k \in 1..Len(sums) |->
                                         <<sums[k][1] \div 3, sums[k][2] \div 3>>]
                       after == RefineInsertAll(triangles, points, new_points)
                   IN  /\ triangles' = after[1]
                       /\ points' = after[2]
                       /\ iteration' = iteration + 1
                       /\ pc' = "refine"
    /\ UNCHANGED <<refineFrame, result>>

\* The loop ends on its condition, or on a break: no bad triangle is left
RefineInteriorReturn ==
    /\ pc = "refine"
    /\ \/ ~RefineLoopRuns
       \/ NewPointSums(triangles, points, request.max_area.value, boundary_count) = <<>>
    /\ result' = "Ok"
    /\ pc' = "returned"
    /\ UNCHANGED <<refineFrame, points, triangles, iteration>>

NextRefine == RefineInteriorPass \/ RefineInteriorReturn

SpecRefine == InitRefine /\ [][NextRefine]_vars


---------------------------------------------------------------------------
(* annealing.rs: count_boundary_vertices as optimize_mesh calls it, for a
   caller that hands optimize_mesh a mesh and a boundary of its own choice
   (set_boundary takes any point list, optimize_mesh any mesh).  The mesh is
   one triangle of positive jacobian over its first three vertices; the
   boundary points are distinct. *)

\* Coordinates of the mesh vertices and of the boundary points
CountGrid == {0, 1} \X {0, 1}

\* The longest vertex list of the mesh
MaxVertices == 4

InitCount ==
    /\ input \in UNION {SeqsOfLen(CountGrid, n) : n \in 3..MaxVertices}
    /\ mesh = MeshNew(input, <<FanTriangle(input, 1)>>)
    /\ NonPositiveTriangles(mesh) = <<>>
    /\ \E boundary_points \in UNION {SeqsOfLen(CountGrid, n) : n \in 0..3},
          max_iterations \in 0..MaxIterations :
           /\ \A i, j \in 1..Len(boundary_points) :
                  boundary_points[i] = boundary_points[j] => i = j
           /\ optimizer = NewOptimizer(boundary_points, max_iterations, <<1, 10>>, <<1, 100>>)
    /\ points = <<>>
    /\ triangles = <<>>
    /\ super_triangle_indices = <<>>
    /\ next_point = 0
    /\ result = "none"
    /\ request = NoRequest
    /\ boundary_count = 0
    /\ iteration = 0
    /\ vertices_before = <<>>
    /\ pc = "optimize"

\* optimize_mesh up to its loop, with the call of count_boundary_vertices
SpecCount == InitCount /\ [][OptimizeMeshStart]_vars


---------------------------------------------------------------------------
(* annealing.rs: the two annealing loops for callers that choose temperature
   and cooling_rate themselves: GridAnnealingMeshGenerator::with_options(...)
   .generate_mesh_with_iterations(target_area, max_iterations), and
   GeneralAnnealingOptimizer::from_options(...) with set_boundary and
   optimize_mesh on the mesh the generator returns without annealing. *)

\* The longest annealing run of these callers
CoolIterations == 2

\* temperature: 1000.0, 0.125, and 0.05, which is not above 0.1
CoolTemperatures == {<<1000, 1>>, <<1, 8>>, <<1, 20>>}

\* cooling_rate: 0.5, 1.0 and 2.0
CoolingRates == {<<1, 2>>, <<1, 1>>, <<2, 1>>}

\* The boundary of the callers, with target_area 2.0
CoolBoundary == << <<0, 0>>, <<0, 4>>, <<2, 4>>, <<2, 0>> >>

InitCool ==
    /\ input = CoolBoundary
    /\ \E temperature \in CoolTemperatures, cooling_rate \in CoolingRates,
          max_iterations \in 0..CoolIterations :
          LET g == InitialGenerator(input, 2, temperature, cooling_rate, <<1, 3>>,
                                    max_iterations)
          IN  \/ /\ optimizer = g
                 /\ mesh = NoMesh
                 /\ pc = "grid_anneal"
              \/ /\ optimizer = [NewOptimizer(input, max_iterations, <<1, 2>>, <<1, 100>>)
                                    EXCEPT !.temperature = temperature,
                                           !.cooling_rate = cooling_rate]
                 /\ mesh = FinalMesh(g)
                 /\ pc = "optimize"
    /\ request = NoRequest
    /\ points = <<>>
    /\ triangles = <<>>
    /\ super_triangle_indices = <<>>
    /\ next_point = 0
    /\ result = "none"
    /\ boundary_count = 0
    /\ iteration = 0
    /\ vertices_before = <<>>

NextCool ==
    \/ GridAcceptMove
    \/ GridRejectMove
    \/ GridSkipMove
    \/ GridLoopExit
    \/ GridQualityBreak
    \/ OptimizeMeshStart
    \/ GeneralAcceptMove
    \/ GeneralRejectMove
    \/ GeneralSkipMove
    \/ GeneralLoopExit

SpecCool == InitCool /\ [][NextCool]_vars

---------------------------------------------------------------------------
(* delaunay.rs generate_hexagonal_grid, pass by pass, for a request with
   max_area = Some(a).  With T = target_edge_length = sqrt(4 a / sqrt 3) and
   h = hex_height = T sqrt 3 / 2 the grid point of row and col is
     (min_x + k T / 2, min_y + row h),   k = 2 col + row % 2.
   T and h are irrational for every integer a > 0, so a grid point is kept
   as <<"hex", k, row>>, and a point with integer coordinates as
   <<"at", x, y>>.  A grid point is compared with an integer m >= 0 by
     k T / 2 <= m  <=>  a^2 k^4 <= 3 m^4,    row h <= m  <=>  3 a^2 row^4 <= m^4,
   where equality needs both sides to be 0.  iteration is row, next_point is
   col. *)

\* The corners of the boundaries
HexCorners == {0, 2, 4} \X {0, 2, 4}

\* max_area of the requests
HexAreas == {0, 1, 2}

\* row and col are counters without a bound of their own; the specification
\* follows a row for this many passes of the column loop
MaxPasses == 6

\* Every edge of the boundary is parallel to an axis
AxisParallel(boundary) ==
    \A i \in 1..Len(boundary) :
        LET p1 == boundary[i]
            p2 == boundary[(i % Len(boundary)) + 1]
        IN  X(p1) = X(p2) \/ Y(p1) = Y(p2)

HexK(row, col) == 2 * col + (row % 2)

\* while x <= max_x
ColumnRuns(boundary, a, row, col) ==
    LET b == CalculateBounds(boundary)
        dx == b[2] - b[1]
        k == HexK(row, col)
    IN  a * a * k * k * k * k <= 3 * dx * dx * dx * dx

\* while y <= max_y
RowRuns(boundary, a, row) ==
    LET b == CalculateBounds(boundary)
        dy == b[4] - b[3]
    IN  3 * a * a * row * row * row * row <= dy * dy * dy * dy

\* pi.y > point.y for the grid point of a row
AboveRow(boundary, a, row, py) ==
    LET m == py - CalculateBounds(boundary)[3]
    IN  m * m * m * m > 3 * a * a * row * row * row * row

\* point.x < pi.x for the grid point of k
LeftOf(boundary, a, k, px) ==
    LET m == px - CalculateBounds(boundary)[1]
    IN  a * a * k * k * k * k < 3 * m * m * m * m

(* is_point_inside_boundary_static for a grid point and a boundary whose
   edges are parallel to the axes: an edge with pi.y = pj.y fails the first
   test, and for an edge with pi.x = pj.x the second test is
   point.x < 0.0 * (point.y - pi.y) / (pj.y - pi.y) + pi.x, that is
   point.x < pi.x. *)
HexPointInside(boundary, a, row, col) ==
    LET n == Len(boundary)
        crossings == {i \in 1..n :
                        LET pi == boundary[i]
                            pj == boundary[((i + n - 2) % n) + 1]
                        IN  /\ AboveRow(boundary, a, row, Y(pi)) # AboveRow(boundary, a, row, Y(pj))
                            /\ LeftOf(boundary, a, HexK(row, col), X(pi))}
    IN  Cardinality(crossings) % 2 = 1

\* sample_boundary_points, for a boundary whose sampled points have integer
\* coordinates: the steps of refine_boundary_edges
HexSampleBoundaryPoints(boundary, a) ==
    LET sampled == RefineBoundaryEdges(boundary, a)
    IN  [j \in 1..Len(sampled) |-> <<"at", X(sampled[j]), Y(sampled[j])>>]

InitHex ==
    /\ input \in UNION {SeqsOfLen(HexCorners, n) : n \in 3..MaxPoints}
    /\ AxisParallel(input)
    /\ request \in {[max_area |-> Some(a), min_angle |-> None, algorithm |-> "delaunay",
                     annealing_options |-> [max_iterations |-> 0, quality_threshold |-> None]] :
                       a \in HexAreas}
    /\ request.max_area.value > 0 => RefinementRepresentable(input, request.max_area.value)
    /\ points = <<>>
    /\ triangles = <<>>
    /\ super_triangle_indices = <<>>
    /\ next_point = 0
    /\ mesh = NoMesh
    /\ result = "none"
    /\ boundary_count = 0
    /\ iteration = 0
    /\ optimizer = NoOptimizer
    /\ vertices_before = <<>>
    /\ pc = "hex_row"

hexFrame == <<input, request, triangles, super_triangle_indices, mesh, result,
              boundary_count, optimizer, vertices_before>>

\* The row loop enters a row: col = 0, x = min_x + x_offset
HexRowEnter ==
    /\ pc = "hex_row"
    /\ RowRuns(input, request.max_area.value, iteration)
    /\ next_point' = 0
    /\ pc' = "hex_col"
    /\ UNCHANGED <<hexFrame, points, iteration>>

\* One pass of the column loop
HexColumnPass ==
    /\ pc = "hex_col"
    /\ next_point < MaxPasses
    /\ ColumnRuns(input, request.max_area.value, iteration, next_point)
    /\ points' = IF HexPointInside(input, request.max_area.value, iteration, next_point)
                 THEN Append(points, <<"hex", HexK(iteration, next_point), iteration>>)
                 ELSE points
    /\ next_point' = next_point + 1
    /\ UNCHANGED <<hexFrame, iteration, pc>>

\* The column loop ends: row += 1, y = min_y + row * hex_height
HexRowEnd ==
    /\ pc = "hex_col"
    /\ ~ColumnRuns(input, request.max_area.value, iteration, next_point)
    /\ iteration' = iteration + 1
    /\ pc' = "hex_row"
    /\ UNCHANGED <<hexFrame, points, next_point>>

\* The row loop ends: the sampled boundary points are added and the list is
\* returned
HexReturn ==
    /\ pc = "hex_row"
    /\ ~RowRuns(input, request.max_area.value, iteration)
    /\ points' = points \o HexSampleBoundaryPoints(input, request.max_area.value)
    /\ pc' = "sampled"
    /\ UNCHANGED <<hexFrame, iteration, next_point>>

NextHex == HexRowEnter \/ HexColumnPass \/ HexRowEnd \/ HexReturn

SpecHex == InitHex /\ [][NextHex]_vars

---------------------------------------------------------------------------
(* Claims *)

AllPositive(T, P) == \A k \in 1..Len(T) : Jacobian(T[k], P) > 0

\* p lies strictly inside the circumcircle of the non-degenerate triangle v
StrictlyInsideCircumcircle(v, P, p) ==
    /\ CircumD(v, P) # 0
    /\ \/ WideSign(CircumN(v, P, p)) < 0 /\ CircumD(v, P) > 0
       \/ WideSign(CircumN(v, P, p)) > 0 /\ CircumD(v, P) < 0

(* C1: after any sequence of bowyer_watson_add_point insertions on a fresh
   triangulator every triangle of the triangle list has jacobian > 0, and so
   has every triangle of the Mesh triangulate() returns. *)
C1_JacobiansPositive ==
    /\ (pc = "insert" /\ next_point >= 1) => AllPositive(triangles, points)
    /\ pc = "done" => AllPositive(mesh.triangle_indices, mesh.vertices)

(* C3: in the Mesh returned by triangulate() no input point other than a
   triangle's own three vertices lies strictly inside that triangle's
   circumcircle. *)
C3_EmptyCircumcircles ==
    pc = "done" =>
        \A k \in 1..Len(mesh.triangle_indices) :
            \A i \in 0..(Len(mesh.vertices) - 1) :
                LET t == mesh.triangle_indices[k]
                IN  i \notin {t[1], t[2], t[3]} =>
                        ~StrictlyInsideCircumcircle(t, mesh.vertices, Pt(mesh.vertices, i))

\* A returned mesh of at least three triangles on four input points.
C3_Witness ==
    /\ pc = "done"
    /\ Len(input) = 4
    /\ Len(mesh.triangle_indices) >= 3

(* C4: triangulate() returns a Mesh whose vertex list has exactly n entries,
   equal in order to the n input points: the three appended super-triangle
   points (positions n, n+1, n+2 of the triangulator's list) are not in it. *)
C4_VerticesAreInput ==
    pc = "done" =>
        /\ Len(mesh.vertices) = Len(input)
        /\ \A i \in 1..Len(input) : mesh.vertices[i] = input[i]
        /\ Len(points) = Len(input) + 3

\* A returned mesh on four input points, with triangles.
C4_Witness ==
    /\ pc = "done"
    /\ Len(input) = 4
    /\ Len(points) = 7
    /\ mesh.triangle_indices # <<>>

(* C9: for a degenerate triangle (three collinear vertices, d = 0)
   contains_point_in_circumcircle returns false for every point. *)
C9_DegenerateContainsNothing ==
    (pc = "tested" /\ IsDegenerate(triangles[1], points)) => result = FALSE

\* The vertex indices of the super-triangle points in the pipeline of lib.rs
LibSuperIndices == {boundary_count, boundary_count + 1, boundary_count + 2}

(* C2: the Mesh returned by generate_delaunay_mesh, also after refine_interior
   has appended centroids behind the super-triangle points, has none of the
   three super-triangle points in its vertex list and no triangle that
   references one. *)
C2_NoSuperTrianglePoints ==
    (pc = "done" /\ result = "Ok") =>
        /\ \A i \in 0..(Len(mesh.vertices) - 1) : i \notin LibSuperIndices
        /\ \A k \in 1..Len(mesh.triangle_indices) :
               \A c \in 1..3 : mesh.triangle_indices[k][c] \notin LibSuperIndices

\* Three points, not on one line
NonCollinear(ps) == Len(ps) = 3 /\ Jacobian(<<0, 1, 2>>, ps) # 0

(* C10: for a geometry of three non-collinear points and the request built
   by MeshRequest::new, generate_mesh returns a mesh with exactly 3 vertices
   and exactly 1 triangle. *)
C10_DefaultTriangle ==
    (pc = "done" /\ NonCollinear(input) /\ request = DefaultRequest) =>
        /\ result = "Ok"
        /\ Len(mesh.vertices) = 3
        /\ Len(mesh.triangle_indices) = 1

(* C6: every mesh vertex within the 1e-6 tolerance of a boundary point given
   to set_boundary has, when GeneralAnnealingOptimizer::optimize_mesh
   returns, exactly the coordinates it had when optimize_mesh was called. *)
C6_BoundaryVerticesUnmoved ==
    pc = "optimized" =>
        \A k \in 1..Len(vertices_before) :
            IsBoundaryVertex(optimizer.boundary_points, vertices_before[k])
                => mesh.vertices[k] = vertices_before[k]

(* C7: after every accepted vertex move of the annealing loop every triangle
   of the mesh has a strictly positive jacobian. *)
C7_AcceptedMoveKeepsJacobiansPositive ==
    [][GeneralAcceptMove => AllPositive(mesh.triangle_indices, mesh.vertices)']_vars


(* C5: for each of the three algorithms, generate_mesh returns Ok(mesh) only
   if validate_jacobians succeeds on exactly that mesh: when generate_mesh
   has returned Ok, no triangle of the returned mesh has a jacobian <= 0 and
   no quad a minimum jacobian <= 0; and when the mesh a pipeline built has
   such a triangle or quad, the call has returned Err. *)
C5_OkOnlyIfJacobiansValid ==
    pc = "returned" =>
        /\ result = "Ok" =>
               NonPositiveTriangles(mesh) = <<>> /\ NonPositiveQuads(mesh) = <<>>
        /\ (NonPositiveTriangles(mesh) # <<>> \/ NonPositiveQuads(mesh) # <<>>) =>
               result = "Err"

\* generate_mesh has returned Err for a paving mesh whose triangles are all
\* positive and one of whose quads is not.
C5_Witness ==
    /\ pc = "returned"
    /\ result = "Err"
    /\ request.algorithm = "paving"
    /\ mesh.triangle_indices # <<>>
    /\ NonPositiveTriangles(mesh) = <<>>
    /\ NonPositiveQuads(mesh) # <<>>

\* Every index of m.triangle_indices and m.quad_indices is below m.vertices.len()
IndicesInRange(m) ==
    /\ \A k \in 1..Len(m.triangle_indices) :
           \A j \in 1..3 : m.triangle_indices[k][j] \in 0..(Len(m.vertices) - 1)
    /\ \A k \in 1..Len(m.quad_indices) :
           \A j \in 1..4 : m.quad_indices[k][j] \in 0..(Len(m.vertices) - 1)

(* C8: in every Mesh produced by triangulate(), by the generate_mesh
   pipelines and by GeneralAnnealingOptimizer::optimize_mesh, every index in
   triangle_indices and quad_indices is strictly less than vertices.len().
   The mesh of every state is one of these: the result of triangulate() in
   generate_delaunay_mesh, the mesh a pipeline built, or the mesh under
   optimize_mesh. *)
C8_IndicesBelowVertexCount == IndicesInRange(mesh)

\* generate_mesh has returned a paving mesh with triangles and quads.
C8_Witness ==
    /\ pc = "returned"
    /\ result = "Ok"
    /\ mesh.triangle_indices # <<>>
    /\ mesh.quad_indices # <<>>

(* C11: when generate_mesh returns for a request with algorithm delaunay, no
   max_area and three boundary points in counter-clockwise order (positive
   jacobian, so not collinear), the result is Ok and the mesh has exactly the
   three boundary points as vertices and the one triangle [0, 1, 2], whose
   jacobian is positive. *)
C11_Case ==
    /\ pc = "returned"
    /\ request.algorithm = "delaunay"
    /\ ~request.max_area.some
    /\ Len(input) = 3
    /\ Jacobian(<<0, 1, 2>>, input) > 0

C11_SingleTriangle ==
    C11_Case =>
        /\ result = "Ok"
        /\ mesh.vertices = input
        /\ mesh.triangle_indices = << <<0, 1, 2>> >>
        /\ Jacobian(mesh.triangle_indices[1], mesh.vertices) > 0

\* The request has too few points for its algorithm
TooFewPoints ==
    Len(input) < 3 \/ (request.algorithm = "paving" /\ Len(input) < 4)

(* C12: generate_mesh answers a request of fewer than 3 points, and a paving
   request of fewer than 4 points, with the insufficient-points error in its
   first step, with no point list, mesh or generator built; a request with
   enough points for its algorithm never gets that error. *)
C12_InsufficientPointsError ==
    [][/\ (pc = "start" /\ TooFewPoints) =>
              /\ result' = ErrNeedPoints
              /\ pc' = "returned"
              /\ points' = <<>> /\ mesh' = NoMesh /\ optimizer' = NoOptimizer
       /\ result' = ErrNeedPoints => TooFewPoints]_vars

C12_Witness ==
    /\ pc = "returned" /\ result = ErrNeedPoints
    /\ request.algorithm = "paving" /\ Len(input) = 3


\* The jacobian of triangle i of the mesh is <= 0
TriangleFails(i) == Jacobian(mesh.triangle_indices[i + 1], mesh.vertices) <= 0

\* The minimum jacobian of quad i of the mesh is <= 0
QuadFails(i) == MinJacobianNonPositive(mesh.quad_indices[i + 1], mesh.vertices)

TriangleRange == 0..(Len(mesh.triangle_indices) - 1)
QuadRange == 0..(Len(mesh.quad_indices) - 1)

(* C13: validate_jacobians returns Ok exactly when every triangle has a
   jacobian above 0 and every quad a minimum jacobian above 0.  Otherwise the
   Err names the failing triangle of the lowest index when a triangle fails,
   and else the failing quad of the lowest index, and carries the jacobian of
   that element. *)
C13_FirstOffendingElement ==
    pc = "returned" =>
        /\ result.ok <=> (\A i \in TriangleRange : ~TriangleFails(i))
                         /\ (\A i \in QuadRange : ~QuadFails(i))
        /\ (~result.ok /\ \E i \in TriangleRange : TriangleFails(i)) =>
               /\ result.element = "Triangle"
               /\ result.index \in TriangleRange
               /\ TriangleFails(result.index)
               /\ \A i \in TriangleRange : i < result.index => ~TriangleFails(i)
               /\ result.jacobian = Jacobian(mesh.triangle_indices[result.index + 1], mesh.vertices)
        /\ (~result.ok /\ ~\E i \in TriangleRange : TriangleFails(i)) =>
               /\ result.element = "Quad"
               /\ result.index \in QuadRange
               /\ QuadFails(result.index)
               /\ \A i \in QuadRange : i < result.index => ~QuadFails(i)
               /\ result.jacobian = QuadMinJacobian(mesh.quad_indices[result.index + 1], mesh.vertices)

\* A mesh whose second triangle and first quad fail: the Err names triangle 1
C13_Witness ==
    /\ pc = "returned"
    /\ ~result.ok /\ result.element = "Triangle" /\ result.index = 1
    /\ mesh.quad_indices # <<>> /\ QuadFails(0)

(* C14: a mesh that passes validate_jacobians still passes it after
   retriangulate_mesh has rebuilt its triangles from its vertices with a new
   DelaunayTriangulator. *)
C14_RetriangulatedMeshValid ==
    pc = "returned" => result = "Ok"

\* Every vertex of the mesh is flagged as a boundary vertex
AllVerticesOnBoundary ==
    \A k \in 1..Len(mesh.vertices) :
        IsBoundaryVertex(optimizer.boundary_points, mesh.vertices[k])

(* C15: when every vertex of the mesh is within the tolerance of a boundary
   point given to the optimizer, no step of optimize_mesh (the annealing loop
   and the adaptive size refinement) changes the mesh, so that optimize_mesh
   returns with the vertex list and the triangle_indices it was called
   with. *)
C15_AllBoundaryMeshUnchanged ==
    [][(/\ pc \in {"optimize", "anneal", "refine"}
        /\ AllVerticesOnBoundary
        /\ pc # "optimize" => mesh.vertices = vertices_before)
          => mesh' = mesh]_vars

\* The centroid of triangle t of mesh m passes is_point_inside_polygon for the
\* boundary of the request
CentroidPasses(t, m) ==
    IsPointInsidePolygon(input, Len(input), CentroidSum(t, m.vertices)[1],
                         CentroidSum(t, m.vertices)[2], 3)

(* C16: the step of the delaunay pipeline that filters the raw triangulation
   and returns leaves the vertex list as it is, returns only triangles whose
   centroid the ray-casting test puts inside the boundary polygon of the
   request, and returns no triangle of the raw triangulation whose centroid
   fails that test. *)
C16_OnlyInsideTrianglesReturned ==
    [][(pc = "filter" /\ pc' = "returned") =>
          /\ mesh'.vertices = mesh.vertices
          /\ \A j \in 1..Len(mesh'.triangle_indices) :
                CentroidPasses(mesh'.triangle_indices[j], mesh')
          /\ \A k \in 1..Len(mesh.triangle_indices) :
                ~CentroidPasses(mesh.triangle_indices[k], mesh) =>
                    \A j \in 1..Len(mesh'.triangle_indices) :
                        mesh'.triangle_indices[j] # mesh.triangle_indices[k]]_vars

\* generate_mesh has returned a delaunay mesh that has a triangle, and that
\* has fewer triangles than the triangulation of its points
C16_Witness ==
    /\ pc = "returned" /\ result = "Ok"
    /\ request.algorithm = "delaunay" /\ Len(input) >= 3
    /\ mesh.triangle_indices # <<>>
    /\ Len(mesh.triangle_indices) < Len(Triangulate(points).triangle_indices)

\* Twice the area of triangle k of the mesh (a position in the list), and
\* target_area as the fraction it is
TwiceArea(k) == Abs(Jacobian(mesh.triangle_indices[k], mesh.vertices))
TargetArea == optimizer.target_area

\* find_oversized_triangles flags triangle k
Flagged(k) ==
    \E j \in 1..Len(FindOversizedTriangles(mesh, TargetArea)) :
        FindOversizedTriangles(mesh, TargetArea)[j] = k

\* The centroid of the triangle of the next split_triangle call fails
\* is_point_inside_boundary
NextCentroidOutside ==
    LET t == mesh.triangle_indices[NextOversized]
        p1 == Pt(mesh.vertices, t[1])
        p2 == Pt(mesh.vertices, t[2])
        p3 == Pt(mesh.vertices, t[3])
    IN  ~IsPointInsideBoundary(optimizer.boundary_points,
                               X(p1) + X(p2) + X(p3), Y(p1) + Y(p2) + Y(p3), 3)

(* C17: find_oversized_triangles flags a triangle exactly when its area is
   above 2 * target_area, and not when it is equal; and split_triangle for a
   flagged triangle whose centroid fails the point-in-boundary test returns
   Ok(false) and leaves the mesh as it is, with no vertex added. *)
C17_OversizedAndSkippedSplit ==
    /\ [](\A k \in 1..Len(mesh.triangle_indices) :
             Flagged(k) <=> TwiceArea(k) * TargetArea[2] > 2 * (2 * TargetArea[1]))
    /\ [][(pc = "split"
           /\ iteration < Len(FindOversizedTriangles(mesh, TargetArea))
           /\ NextCentroidOutside)
             => (mesh' = mesh /\ result' = "Ok(false)")]_vars

\* split_triangle has returned Ok(false) for the first flagged triangle and
\* the mesh has the vertices it had; another triangle, of area
\* 2 * target_area, is not flagged
C17_Witness ==
    /\ pc = "split" /\ iteration = 1 /\ result = "Ok(false)"
    /\ mesh.vertices = vertices_before
    /\ \E k \in 1..Len(mesh.triangle_indices) :
          TwiceArea(k) * TargetArea[2] = 4 * TargetArea[1] /\ ~Flagged(k)

(* C18: triangulate() is called at most once on a DelaunayTriangulator: once
   the triangulator of generate_adaptive_triangulation has been triangulated,
   no step appends points to it and triangulates it again, so that its
   points, its triangles and the triangulation stay as they are. *)
C18_TriangulateAtMostOnce ==
    [][pc = "triangulated" =>
          (points' = points /\ triangles' = triangles /\ mesh' = mesh)]_vars

\* A step of the loop of optimize_mesh that moves a vertex
GeneralMoveCarriedOut == pc = "anneal" /\ mesh'.vertices # mesh.vertices

\* A step of the loop of optimize_with_annealing that moves an internal point
GridMoveCarriedOut ==
    pc = "grid_anneal" /\ pc' = "grid_anneal" /\ optimizer'.internal_points # optimizer.internal_points

\* C19: in both annealing optimizers a vertex move that passes the
\* point-in-boundary test is followed by a full Delaunay re-triangulation of
\* all current points: after the step the triangle index list is the one
\* triangulate() computes from the points as they are now.
C19_MoveRetriangulates ==
    [][/\ GridMoveCarriedOut =>
              optimizer'.triangles = Triangulate(AllGridPoints(optimizer')).triangle_indices
       /\ (GeneralMoveCarriedOut /\ mesh.triangle_indices = Triangulate(mesh.vertices).triangle_indices) =>
              mesh'.triangle_indices = Triangulate(mesh'.vertices).triangle_indices]_vars

\* An iteration of either annealing loop whose move is not accepted
MoveNotAccepted ==
    GridRejectMove \/ GridSkipMove \/ GeneralRejectMove \/ GeneralSkipMove

\* The optimizer record differs from the one before in its temperature only
OnlyTemperatureChanged ==
    optimizer' = [optimizer EXCEPT !.temperature = optimizer'.temperature]

\* C20: in both annealing loops an iteration whose move is not accepted (the
\* new position fails the point-in-boundary test, or the move is taken back)
\* leaves the vertex coordinates and the triangle index list as they were at
\* the start of the iteration; only the temperature and the iteration counter
\* change.
C20_RejectedIterationRestores ==
    [][MoveNotAccepted =>
           /\ OnlyTemperatureChanged
           /\ mesh' = mesh
           /\ iteration' = iteration + 1]_vars

\* After one iteration of optimize_with_annealing the generator has internal
\* points, a move that can be taken back was there to propose, and points and
\* triangles are those of the initial triangulation
C20_Witness ==
    /\ pc = "grid_anneal"
    /\ iteration = 1
    /\ optimizer.internal_points # <<>>
    /\ optimizer.triangles # <<>>
    /\ \E d \in Displacements \ {<<0, 0>>} : GridMoves(0, d)
    /\ optimizer = [InitialGenerator(input, AreaOrDefault(request.max_area),
                                     <<1000, 1>>, <<199, 200>>, ThresholdOf(request),
                                     request.annealing_options.max_iterations)
                        EXCEPT !.temperature = optimizer.temperature]

\* The number of bad triangles that have the edge e
EdgeUses(T, bad, e) ==
    Cardinality({j \in 1..Len(bad) : TriangleContainsEdge(T[bad[j]], e)})

\* The edges of the bad triangles
CavityEdges(T, bad) ==
    {TriangleEdges(T[bad[j]])[k] : j \in 1..Len(bad), k \in 1..3}

\* The number of triangles at the positions from..Len(T) that join the edge e
\* to the point point_index
TrianglesOnEdge(T, from, e, point_index) ==
    Cardinality({k \in from..Len(T) : T[k][3] = point_index /\ EdgeNew(T[k][1], T[k][2]) = e})

\* C21: in bowyer_watson_add_point the cavity boundary is the set of edges of
\* exactly one bad triangle: an edge of two bad triangles gets no new
\* triangle, an edge of exactly one bad triangle gets exactly one, and the
\* triangles removed from the list are the bad triangles and no others.
C21_CavityBoundary ==
    [][(pc = "insert" /\ next_point' = next_point + 1) =>
           LET bad == BadTriangles(triangles, points, next_point)
               kept == Len(triangles) - Len(bad)
           IN  /\ Len(triangles') >= kept
               /\ SubSeq(triangles', 1, kept) =
                     SelectSeq(triangles,
                               LAMBDA t : ~ContainsPointInCircumcircle(t, points, Pt(points, next_point)))
               /\ \A e \in CavityEdges(triangles, bad) :
                     TrianglesOnEdge(triangles', kept + 1, e, next_point) =
                         IF EdgeUses(triangles, bad, e) = 1 THEN 1 ELSE 0
               /\ \A k \in (kept + 1)..Len(triangles') :
                     /\ triangles'[k][3] = next_point
                     /\ EdgeNew(triangles'[k][1], triangles'[k][2]) \in CavityEdges(triangles, bad)]_vars

\* The triangle list of triangulate() after the first n insertions
RECURSIVE TrianglesAfter(_)
TrianglesAfter(n) ==
    IF n = 0 THEN <<super_triangle_indices>>
    ELSE BowyerWatsonAddPoint(TrianglesAfter(n - 1), points, n - 1)

\* The last insertion found bad triangles that share an edge, and the list is
\* the one that insertion left
C21_Witness ==
    /\ pc = "insert"
    /\ next_point >= 2
    /\ LET T == TrianglesAfter(next_point - 1)
           bad == BadTriangles(T, points, next_point - 1)
       IN  /\ \E e \in CavityEdges(T, bad) : EdgeUses(T, bad, e) = 2
           /\ \E e \in CavityEdges(T, bad) : EdgeUses(T, bad, e) = 1
           /\ triangles = BowyerWatsonAddPoint(T, points, next_point - 1)

\* C22: an insertion by bowyer_watson_add_point whose cavity has no boundary
\* edge (among them the insertions that find no bad triangle) leaves the
\* triangle list as it was: no triangle is removed and none is added.
C22_EmptyCavityIsNoOp ==
    [][(pc = "insert" /\ next_point' = next_point + 1
           /\ PolygonEdges(triangles, BadTriangles(triangles, points, next_point)) = <<>>) =>
           triangles' = triangles]_vars

\* An insertion that found no bad triangle has left the list it found
C22_Witness ==
    /\ pc = "insert"
    /\ next_point >= 1
    /\ BadTriangles(TrianglesAfter(next_point - 1), points, next_point - 1) = <<>>
    /\ triangles = TrianglesAfter(next_point - 1)
    /\ triangles # <<>>

\* The two loops of one pass of adaptive_size_refinement add no vertex and
\* move none
PassModifiesNothing ==
    LET after == RefinedVertices(mesh, optimizer)
    IN  after.ok /\ after.vertices = mesh.vertices

\* C23: adaptive_size_refinement runs at most 3 passes, re-triangulates after
\* every pass that changed the mesh, and stops at the first pass that adds no
\* vertex and moves none: such a pass is not reported as changed, and no
\* re-triangulation and no further pass follow it.
C23_RefinementPasses ==
    /\ [](pc = "refine" => iteration < MaxRefinementIterations)
    /\ [][(pc = "refine" /\ pc' # "unrepresentable") =>
              IF PassModifiesNothing
              THEN pc' = "optimized" /\ mesh' = mesh /\ iteration' = iteration
              ELSE /\ iteration' = iteration + 1
                   /\ mesh'.vertices = RefinedVertices(mesh, optimizer).vertices
                   /\ mesh'.triangle_indices = Triangulate(mesh'.vertices).triangle_indices]_vars

\* The oversized triangles with their centroid inside the boundary that are
\* left in the triangulator
OversizedInteriorLeft ==
    RefineBadTriangles(triangles, points, request.max_area.value, boundary_count)

\* C24: refine_interior terminates: every pass that does not end the call
\* adds 1 to iteration, and iteration never exceeds 50, so that at most 50
\* passes run.  A pass pushes at most 5 centroids and points never grows
\* beyond 10,000 entries; and when the call returns, either no triangle with
\* area > max_area and centroid inside the boundary is left, or one of the
\* two budgets is used up.
C24_RefineInteriorBounded ==
    /\ [](iteration <= RefineMaxIterations /\ Len(points) <= RefineMaxPoints)
    /\ [][(pc = "refine" /\ pc' = "refine") =>
              /\ iteration' = iteration + 1
              /\ Len(points') > Len(points)
              /\ Len(points') <= Len(points) + RefinePerPass]_vars
    /\ [](pc = "returned" =>
              \/ OversizedInteriorLeft = <<>>
              \/ iteration >= RefineMaxIterations
              \/ Len(points) >= RefineMaxPoints)

\* refine_interior has returned after a pass that filled points up to
\* max_points, with an oversized interior triangle still there
C24_Witness ==
    /\ pc = "returned"
    /\ iteration >= 1
    /\ Len(points) = RefineMaxPoints
    /\ OversizedInteriorLeft # <<>>

\* The number of mesh vertices within tolerance of a boundary point
MatchedVertices ==
    Cardinality({k \in 1..Len(mesh.vertices) :
                    IsBoundaryVertex(optimizer.boundary_points, mesh.vertices[k])})

\* C25: the number of leading vertices count_boundary_vertices reports to
\* optimize_mesh as protected is never smaller than the number of mesh
\* vertices it found within tolerance of a boundary point, the fallback
\* min(boundary_points.len(), vertices.len() / 3) included.
C25_ProtectsAtLeastMatched ==
    [][(pc = "optimize" /\ pc' = "anneal") => boundary_count' >= MatchedVertices]_vars

\* A step inside one of the two annealing loops
AnnealingIteration ==
    \/ pc = "grid_anneal" /\ pc' = "grid_anneal"
    \/ pc = "anneal" /\ pc' = "anneal"

\* C26: both annealing loops end after at most max_iterations iterations,
\* whatever temperature and cooling_rate are (cooling_rate >= 1 included):
\* every iteration, accepted, rejected or skipped, adds 1 to the iteration
\* counter, which never exceeds max_iterations, and multiplies the temperature
\* by cooling_rate exactly once; and the loop is left as soon as its condition
\* fails.
C26_AnnealingLoopsBounded ==
    /\ []((pc = "grid_anneal" \/ pc = "anneal") => iteration <= optimizer.max_iterations)
    /\ [][AnnealingIteration =>
              /\ iteration < optimizer.max_iterations
              /\ iteration' = iteration + 1
              /\ optimizer'.temperature = Cooled(optimizer.temperature, optimizer.cooling_rate)
              /\ optimizer'.cooling_rate = optimizer.cooling_rate
              /\ optimizer'.max_iterations = optimizer.max_iterations]_vars
    /\ [][((pc = "grid_anneal" \/ pc = "anneal") /\ iteration = optimizer.max_iterations) =>
              pc' # pc]_vars

\* A loop with cooling_rate 2.0 has run max_iterations = 2 iterations and its
\* temperature is four times the first
C26_Witness ==
    /\ pc \in {"grid_anneal", "anneal"}
    /\ optimizer.cooling_rate = <<2, 1>>
    /\ optimizer.max_iterations = 2
    /\ iteration = 2
    /\ optimizer.temperature = <<4000, 1>>

\* The number of triangles of the list that have the edge e
TrianglesWithEdge(T, e) ==
    Cardinality({k \in 1..Len(T) : TriangleContainsEdge(T[k], e)})

\* The vertex set of a triangle
VertexSet(t) == {t[1], t[2], t[3]}

\* C27: after any number of bowyer_watson_add_point insertions on a freshly
\* constructed triangulator the triangle list is a manifold triangulation: no
\* two triangles of the list have the same vertex set, and every edge belongs
\* to at most two triangles.
C27_ManifoldTriangleList ==
    pc = "insert" =>
        /\ \A i, j \in 1..Len(triangles) :
               VertexSet(triangles[i]) = VertexSet(triangles[j]) => i = j
        /\ \A k \in 1..Len(triangles) : \A s \in 1..3 :
               TrianglesWithEdge(triangles, TriangleEdges(triangles[k])[s]) <= 2

\* The turn at b on the way from a to c: 1 to the left, -1 to the right, 0
\* straight on or back
Turn(a, b, c) ==
    LET cross == (X(b) - X(a)) * (Y(c) - Y(b)) - (Y(b) - Y(a)) * (X(c) - X(b))
    IN  IF cross > 0 THEN 1 ELSE IF cross < 0 THEN -1 ELSE 0

\* The segments a-b and c-d have a point in common
SegmentsMeet(a, b, c, d) ==
    /\ Turn(a, b, c) * Turn(a, b, d) <= 0
    /\ Turn(c, d, a) * Turn(c, d, b) <= 0

\* Corner i (from 1) of a boundary and the two corners next to it
CornerTurn(boundary, i) ==
    LET n == Len(boundary)
    IN  Turn(boundary[((i + n - 2) % n) + 1], boundary[i], boundary[(i % n) + 1])

\* The boundary is a simple polygon that is not convex: it turns at every
\* corner, to the left at one and to the right at another, and no two of its
\* edges without a common corner meet
IsNonConvex(boundary) ==
    LET n == Len(boundary)
    IN  /\ n >= 4
        /\ \A i \in 1..n : CornerTurn(boundary, i) # 0
        /\ \E i, j \in 1..n : CornerTurn(boundary, i) = 1 /\ CornerTurn(boundary, j) = -1
        /\ \A i, j \in 1..n :
               (i < j /\ j # i + 1 /\ (j % n) + 1 # i) =>
                   ~SegmentsMeet(boundary[i], boundary[(i % n) + 1],
                                 boundary[j], boundary[(j % n) + 1])

\* C28: for a non-convex boundary every triangle of the Mesh that the
\* annealing pipeline returns has its centroid inside the boundary polygon.
C28_AnnealingTrianglesInside ==
    (pc = "returned" /\ result = "Ok" /\ request.algorithm = "annealing" /\ IsNonConvex(input)) =>
        \A k \in 1..Len(mesh.triangle_indices) :
            CentroidInsideBoundary(mesh.triangle_indices[k], mesh.vertices, input)

\* C29: generate_hexagonal_grid finishes for every request with at least 3
\* points and every max_area, 0 included: in each row some number of passes
\* of the column loop puts x above max_x, and some number of rows puts y
\* above max_y.
C29_HexGridLoopsFinish ==
    pc \in {"hex_row", "hex_col"} =>
        /\ \E col \in 0..MaxPasses : ~ColumnRuns(input, request.max_area.value, iteration, col)
        /\ \E row \in 0..MaxPasses : ~RowRuns(input, request.max_area.value, row)

\* C30: for a boundary of at least 4 points PavingMeshGenerator::generate_mesh
\* returns a Result, Ok or Err: rows - 1 and cols - 1 never underflow, so the
\* call neither panics nor runs the quad loop with a wrapped bound.
C30_PavingReturnsResult ==
    (request.algorithm = "paving" /\ Len(input) >= PavingMinPoints) =>
        /\ pc \notin {"panicked", "looping"}
        /\ (pc = "returned" => result \in {"Ok", "Err"})

====
